---- MODULE Spec2Model ----
(***************************************************************************)
(* mini-redis: the durable cache engine.                                   *)
(*                                                                         *)
(* The Index (data / expires / lastAccess maps of Cache), the AOF writer   *)
(* and replayer (AOF), the snapshot codec (SaveSnapshot / LoadSnapshot),   *)
(* the snapshot-then-truncate task and the recovery protocol (NewCache).   *)
(*                                                                         *)
(* Time is an integer clock; every time.Now() of the code is a separate    *)
(* read of that clock, so the clock may advance between two reads of one   *)
(* operation.  time.Time{} (the no-expiry marker) is ZeroTime.             *)
(***************************************************************************)
EXTENDS Integers, Sequences, FiniteSets, TLC

\* ------------------------------------------------------------ bounds
MaxTime == 3
MaxDrift == 1
MaxAofLines == 3
MaxFaults == 1
MaxCrashes == 1

\* ------------------------------------------------- program constants
ZeroTime == 0

\* ------------------------------------------------------------ inputs
\* setHandler / delHandler pass on only non-empty keys and values and
\* ttl >= 0 whole seconds.  LongValue stands for a value so large that the
\* JSON line of its SET record exceeds bufio.Scanner's token limit.
Keys == {"a", "b", "c"}
TwoKeys == {"a", "b"}
KeyOrder == <<"a", "b", "c">>
LongValue == "L"
Values == {"v", "w"}
TTLs == {0, 1}
NotFound == "<notfound>"
NoKeys == {}

VARIABLES
    phase,       \* the process: "up" | "down" | "failed" (NewCache returned an error)
    maxKeys,     \* Cache.maxKeys (0 = unlimited)
    now,         \* the clock: the value the next time.Now() returns at least
    data,        \* Cache.data
    expires,     \* Cache.expires
    lastAccess,  \* Cache.lastAccess
    aofLines,    \* AOF file: the newline-terminated lines, each a sequence of pieces
    aofTail,     \* AOF file: the bytes after the last newline (<<>> when none)
    writerOK,    \* AOF.writer / AOF.file accept writes (no sticky error, not closed)
    snapshot,    \* the file at snapshotPath: <<>> when absent, else <<entries>>
    faults,      \* I/O errors the disk may still produce
    crashes,     \* crashes that may still happen
    aofRoom,     \* the longest AOF, in lines, that is explored
    tmpFile,     \* the file at snapshotPath + ".tmp", as snapshot
    last,        \* observation: the last operation and what it returned
    order,       \* observation: keys by order of their last Set/Get, oldest first
    crashIdx,    \* observation: the Index at the moment of the last crash
    pc,          \* each goroutine's position in the call it runs
    req,         \* each goroutine's call: its arguments, the records it still logs
                 \* and, in SaveSnapshot, its locals (now, the keys the range
                 \* loop has not visited, snapshot.Entries)
    mu,          \* Cache.mu: the goroutine that holds it, NoOne when free
    aofMu,       \* AOF.mu: the goroutine that holds it, NoOne when free
    sm,          \* SnapshotManager: its mutex, running, stopChan, its goroutines
    hist,        \* observation: the records appended to the AOF, each with the
                 \* call it belongs to and the number of that call's
                 \* acquisition of the Index lock
    tickets      \* observation: Index-lock acquisitions by Set and Del so far

threads == <<pc, req, mu, aofMu, sm, hist, tickets>>

vars == <<phase, maxKeys, now, data, expires, lastAccess, aofLines, aofTail,
          writerOK, snapshot, faults, crashes, aofRoom, tmpFile, last, order, crashIdx,
          pc, req, mu, aofMu, sm, hist, tickets>>

\* ----------------------------------------------------------- helpers
Min(x, y) == IF x <= y THEN x ELSE y

Remove(f, ks) == [k \in DOMAIN f \ ks |-> f[k]]

Put(f, key, val) == [k \in DOMAIN f \cup {key} |-> IF k = key THEN val ELSE f[k]]

EmptyMap == [k \in {} |-> 0]

Index(d, e, la) == [data |-> d, expires |-> e, lastAccess |-> la]

EmptyIndex == Index(EmptyMap, EmptyMap, EmptyMap)

Idx == Index(data, expires, lastAccess)

\* The latest clock value an operation that starts now may read.
Horizon == Min(now + MaxDrift, MaxTime)

SeqRemove(s, ks) == SelectSeq(s, LAMBDA k : k \notin ks)

Touch(s, key) == Append(SeqRemove(s, {key}), key)

\* ------------------------------------------------------------- Index
hasKey(idx, key) == key \in DOMAIN idx.data

isExpired(idx, key, t) ==
    IF key \notin DOMAIN idx.expires THEN FALSE
    ELSE IF idx.expires[key] = ZeroTime THEN FALSE
    ELSE t > idx.expires[key]

ExpiredAt(idx, t) ==
    {k \in DOMAIN idx.expires : idx.expires[k] # ZeroTime /\ t > idx.expires[k]}

\* A sweep without the IsZero test: time.Time{} is before every instant.
cleanupExpiredNoSentinel(idx, t) ==
    LET gone == {k \in DOMAIN idx.expires : t > idx.expires[k]}
    IN  Index(Remove(idx.data, gone), Remove(idx.expires, gone),
              Remove(idx.lastAccess, gone))

\* A sweep that leaves the recency record of the keys it removes.
cleanupExpiredKeepsAccess(idx, t) ==
    LET gone == ExpiredAt(idx, t)
    IN  Index(Remove(idx.data, gone), Remove(idx.expires, gone), idx.lastAccess)

cleanupExpiredLocked(idx, t) ==
    LET gone == ExpiredAt(idx, t)
    IN  Index(Remove(idx.data, gone), Remove(idx.expires, gone),
              Remove(idx.lastAccess, gone))

countValidKeys(idx, t) ==
    IF DOMAIN idx.data = {} THEN 0
    ELSE Cardinality({k \in DOMAIN idx.data :
            \/ k \notin DOMAIN idx.expires
            \/ idx.expires[k] = ZeroTime
            \/ ~(t > idx.expires[k])})

\* evictLRU, the scan: the keys the loop does not skip, when the keys of
\* `late` are tested by isExpired at clock tLate and the others at tEarly.
lruCandidates(idx, tEarly, tLate, late) ==
    {k \in DOMAIN idx.lastAccess :
        ~isExpired(idx, k, IF k \in late THEN tLate ELSE tEarly)}

\* A scan that keeps the newest access time instead of the oldest.
lruVictimsNewest(idx, cands) ==
    {k \in cands : \A o \in cands : idx.lastAccess[k] >= idx.lastAccess[o]}

\* evictLRU, the choice: `first || accessTime.Before(oldestTime)` keeps the
\* first key of the map iteration among those with the oldest access time;
\* the iteration order of a Go map is not fixed.
lruVictims(idx, cands) ==
    {k \in cands : \A o \in cands : idx.lastAccess[k] <= idx.lastAccess[o]}

\* evictLRU, the removal.
evictKey(idx, victim) ==
    Index(Remove(idx.data, victim), Remove(idx.expires, victim),
          Remove(idx.lastAccess, victim))

\* evictLRU: every [victim, clock] the call can end with from clock lo on.
evictLRU(idx, lo, hi) ==
    IF DOMAIN idx.lastAccess = {} THEN {[victim |-> NoKeys, clock |-> lo]}
    ELSE UNION { UNION { UNION {
           LET cands == lruCandidates(idx, tEarly, tLate, late)
           IN  IF cands = {} THEN {[victim |-> NoKeys, clock |-> tLate]}
               ELSE {[victim |-> {k}, clock |-> tLate] : k \in lruVictims(idx, cands)}
           : late \in IF tEarly = tLate THEN {{}} ELSE SUBSET DOMAIN idx.lastAccess }
           : tLate \in tEarly..hi }
           : tEarly \in lo..hi }

\* A Set that keeps the value of a key already present.
insertKeyKeep(idx, key, value, ttl, tExp, tAcc) ==
    Index(Put(idx.data, key, IF key \in DOMAIN idx.data THEN idx.data[key] ELSE value),
          Put(idx.expires, key, IF ttl > 0 THEN tExp + ttl ELSE ZeroTime),
          Put(idx.lastAccess, key, tAcc))

\* Set / setInternal, the tail: data, expires and lastAccess of the key.
insertKey(idx, key, value, ttl, tExp, tAcc) ==
    Index(Put(idx.data, key, value),
          Put(idx.expires, key, IF ttl > 0 THEN tExp + ttl ELSE ZeroTime),
          Put(idx.lastAccess, key, tAcc))

insertRuns(idx, key, value, ttl, victim, lo, hi) ==
    UNION { { [idx |-> insertKey(idx, key, value, ttl, tExp, tAcc),
               victim |-> victim, clock |-> tAcc] : tAcc \in tExp..hi }
            : tExp \in lo..hi }

\* A Set without the expired-sweep that counts every entry against maxKeys.
setInternalCountAll(idx, mk, key, value, ttl, lo, hi) ==
    IF mk > 0 /\ ~hasKey(idx, key) /\ Cardinality(DOMAIN idx.data) >= mk
    THEN UNION { insertRuns(evictKey(idx, ev.victim), key, value, ttl, ev.victim,
                            ev.clock, hi)
                 : ev \in evictLRU(idx, lo, hi) }
    ELSE insertRuns(idx, key, value, ttl, NoKeys, lo, hi)

\* A Set that treats every key as new: at capacity it evicts for an update too.
setInternalEvictsOnUpdate(idx, mk, key, value, ttl, lo, hi) ==
    UNION {
      LET swept == cleanupExpiredLocked(idx, tSweep)
      IN  IF mk > 0
          THEN UNION {
                 IF countValidKeys(swept, tCount) >= mk
                 THEN UNION { insertRuns(evictKey(swept, ev.victim), key, value,
                                         ttl, ev.victim, ev.clock, hi)
                              : ev \in evictLRU(swept, tCount, hi) }
                 ELSE insertRuns(swept, key, value, ttl, NoKeys, tCount, hi)
                 : tCount \in tSweep..hi }
          ELSE insertRuns(swept, key, value, ttl, NoKeys, tSweep, hi)
      : tSweep \in lo..hi }

\* setInternal (and the Index part of Set, which is the same code): every
\* [idx, victim, clock] the call can end with when its clock reads lie in lo..hi.
setInternal(idx, mk, key, value, ttl, lo, hi) ==
    LET isNewKey == ~hasKey(idx, key)
    IN  UNION {
          LET swept == cleanupExpiredLocked(idx, tSweep)
          IN  IF mk > 0 /\ isNewKey
              THEN UNION {
                     IF countValidKeys(swept, tCount) >= mk
                     THEN UNION { insertRuns(evictKey(swept, ev.victim), key, value,
                                             ttl, ev.victim, ev.clock, hi)
                                  : ev \in evictLRU(swept, tCount, hi) }
                     ELSE insertRuns(swept, key, value, ttl, NoKeys, tCount, hi)
                     : tCount \in tSweep..hi }
              ELSE insertRuns(swept, key, value, ttl, NoKeys, tSweep, hi)
          : tSweep \in lo..hi }

\* A delete that forgets the key's entry in expires.
delInternalKeepExpiry(idx, key) ==
    Index(Remove(idx.data, {key}), idx.expires, Remove(idx.lastAccess, {key}))

delInternal(idx, key) ==
    Index(Remove(idx.data, {key}), Remove(idx.expires, {key}),
          Remove(idx.lastAccess, {key}))

\* A Get without the expiry check.
getRunsNoExpiry(idx, key, lo, hi) ==
    IF key \notin DOMAIN idx.data
    THEN {[idx |-> idx, ret |-> NotFound, clock |-> lo]}
    ELSE {[idx |-> [idx EXCEPT !.lastAccess = Put(idx.lastAccess, key, tAcc)],
           ret |-> idx.data[key], clock |-> tAcc] : tAcc \in lo..hi}

\* Get: every [idx, ret, clock] the call can end with.
getRuns(idx, key, lo, hi) ==
    IF key \notin DOMAIN idx.data
    THEN {[idx |-> idx, ret |-> NotFound, clock |-> lo]}
    ELSE UNION {
           IF key \in DOMAIN idx.expires /\ idx.expires[key] # ZeroTime
              /\ tCheck > idx.expires[key]
           THEN {[idx |-> delInternal(idx, key), ret |-> NotFound, clock |-> tCheck]}
           ELSE {[idx |-> [idx EXCEPT !.lastAccess = Put(idx.lastAccess, key, tAcc)],
                  ret |-> idx.data[key], clock |-> tAcc] : tAcc \in tCheck..hi}
           : tCheck \in lo..hi }

\* --------------------------------------------------------------- AOF
AOFCommand(op, key, value, ttl) == [op |-> op, key |-> key, value |-> value, ttl |-> ttl]

\* LogSet: ttlSeconds = int(ttl.Seconds()); the handler passes whole seconds.
SetCommand(key, value, ttl) == AOFCommand("SET", key, value, IF ttl > 0 THEN ttl ELSE 0)

DelCommand(key) == AOFCommand("DEL", key, "", 0)

\* What one writeCommand call can meet: success, an error of Write / Flush, an
\* error of Sync, or the death of the process while a prefix of the line's
\* bytes is in the file: a short prefix, a prefix already longer than the
\* scanner's token limit, or the whole JSON text without its newline.
IoErrors == {"writeErr", "syncErr"}
IoCrashes == {"tornShort", "tornLong", "tornWhole"}
IoOutcomes == {"ok"} \cup IoErrors \cup IoCrashes

TornPiece(long) == AOFCommand("TORN", "", IF long THEN LongValue ELSE "", 0)

pieceLong(piece) == piece.value = LongValue

\* The bytes a dying writeCommand leaves behind for outcome io.
tornBytes(cmd, io) ==
    IF io = "tornWhole" THEN cmd
    ELSE TornPiece(io = "tornLong")

\* The crash outcomes a command's line admits.
crashesOf(cmd) ==
    IF pieceLong(cmd) THEN {"tornShort", "tornLong"} ELSE {"tornShort", "tornWhole"}

WriterState(lines, tail, usable, err, dead) ==
    [lines |-> lines, tail |-> tail, usable |-> usable, err |-> err, dead |-> dead]

\* A writeCommand that leaves the line in the bufio.Writer: no Flush, no Sync.
writeCommandNoFlush(w, cmd, io) ==
    IF ~w.usable \/ io = "writeErr"
    THEN WriterState(w.lines, w.tail, FALSE, TRUE, FALSE)
    ELSE WriterState(w.lines, w.tail, TRUE, FALSE, FALSE)

\* writeCommand on writer state w: json.Marshal, Write, WriteByte('\n'), Flush,
\* Sync.  The bytes go after whatever the file ends with.  A write or flush
\* error is sticky in bufio.Writer; a sync error is not.
writeCommand(w, cmd, io) ==
    IF ~w.usable \/ io = "writeErr"
    THEN WriterState(w.lines, w.tail, FALSE, TRUE, FALSE)
    ELSE IF io \in IoCrashes
    THEN WriterState(w.lines, Append(w.tail, tornBytes(cmd, io)), FALSE, TRUE, TRUE)
    ELSE WriterState(Append(w.lines, Append(w.tail, cmd)), <<>>, TRUE,
                     io = "syncErr", FALSE)

\* LogSet / LogDel: nothing when logging is disabled; the error is printed only.
logCommand(w, enabled, cmd, io) ==
    IF ~enabled \/ w.dead THEN [w EXCEPT !.err = w.dead]
    ELSE writeCommand(w, cmd, io)

Writer == WriterState(aofLines, aofTail, writerOK, FALSE, FALSE)

\* The outcomes that may be injected into a write on writer state w: an error
\* or a crash is injected only into a write that would otherwise succeed.
Injectable(w, cmd) ==
    IF w.dead \/ ~w.usable THEN {"ok"}
    ELSE {"ok"}
         \cup (IF faults > 0 THEN IoErrors ELSE {})
         \cup (IF crashes > 0 THEN crashesOf(cmd) ELSE {})

\* ---------------------------------------------------------- snapshot
\* SaveSnapshot, the copy: the non-expired entries at clock t, each with its
\* value and its expiry (time.Time{} when the key has none).
snapshotEntries(idx, t) ==
    LET kept == {k \in DOMAIN idx.data :
                    ~(k \in DOMAIN idx.expires /\ idx.expires[k] # ZeroTime
                      /\ t > idx.expires[k])}
    IN  [k \in kept |->
            [value |-> idx.data[k],
             expires_at |-> IF k \in DOMAIN idx.expires /\ idx.expires[k] # ZeroTime
                            THEN idx.expires[k] ELSE ZeroTime]]

\* The content of a snapshot file that holds less than the encoding of its
\* entries: a file of zero length, a prefix of the encoding, or an encoding
\* with bytes altered so that it is no JSON value any more.
Damages == {"empty", "torn", "garbled"}

\* json.Encoder.Encode of a Snapshot with these entries, as the file content.
encodeSnapshot(entries) == <<entries>>

\* A file damaged in one of the three ways.
damaged(entries, how) == <<IF how = "empty" THEN EmptyMap ELSE entries, how>>

\* os.Stat finds the file, its size is not 0 and Decoder.Decode returns nil.
decodes(file) == Len(file) = 1

\* A LoadSnapshot that restores the values and forgets the expiries.
loadSnapshotDropsExpiry(idx, snap, t) ==
    IF ~decodes(snap) THEN idx
    ELSE LET entries == snap[1]
             kept == {k \in DOMAIN entries :
                         ~(entries[k].expires_at # ZeroTime /\ t > entries[k].expires_at)}
         IN  Index([k \in kept |-> entries[k].value],
                   [k \in kept |-> ZeroTime],
                   [k \in kept |-> t])

\* A LoadSnapshot that restores what it could read of a damaged file.
loadSnapshotPartial(idx, snap, t) ==
    IF snap = <<>> THEN idx
    ELSE LET entries == snap[1]
             kept == {k \in DOMAIN entries :
                         ~(entries[k].expires_at # ZeroTime /\ t > entries[k].expires_at)}
         IN  Index([k \in kept |-> entries[k].value],
                   [k \in kept |-> entries[k].expires_at],
                   [k \in kept |-> t])

\* LoadSnapshot at clock t: no file, an empty file or a file that does not
\* decode, no change; else the maps are replaced by the entries not yet
\* expired, every lastAccess set to t.
loadSnapshot(idx, snap, t) ==
    IF ~decodes(snap) THEN idx
    ELSE LET entries == snap[1]
             kept == {k \in DOMAIN entries :
                         ~(entries[k].expires_at # ZeroTime /\ t > entries[k].expires_at)}
         IN  Index([k \in kept |-> entries[k].value],
                   [k \in kept |-> entries[k].expires_at],
                   [k \in kept |-> t])

\* ------------------------------------------------------------ replay
\* bufio.Scanner: the lines of the file, an unterminated last line included.
scanTokens(lines, tail) == IF tail = <<>> THEN lines ELSE Append(lines, tail)

\* A token longer than the scanner's buffer ends the scan with ErrTooLong.
tokenTooLong(token) == \E i \in 1..Len(token) : pieceLong(token[i])

\* json.Unmarshal of a line: a command when the line is one whole JSON object.
parseLine(token) ==
    IF Len(token) = 1 /\ token[1].op \in {"SET", "DEL"} THEN <<token[1]>> ELSE <<>>

\* Replay, the loop body for one token: every [idx, victim, clock] it can end with.
replayToken(idx, mk, token, lo, hi) ==
    LET parsed == parseLine(token)
    IN  IF parsed = <<>> THEN {[idx |-> idx, victim |-> NoKeys, clock |-> lo]}
        ELSE IF parsed[1].op = "SET"
        THEN setInternal(idx, mk, parsed[1].key, parsed[1].value, parsed[1].ttl, lo, hi)
        ELSE {[idx |-> delInternal(idx, parsed[1].key), victim |-> NoKeys, clock |-> lo]}

\* An evictLRU of the replay that finds logging enabled.
logDelInReplayEnabled(w, victim) ==
    IF victim = NoKeys THEN w
    ELSE logCommand(w, TRUE, DelCommand(CHOOSE k \in victim : TRUE), "ok")

\* evictLRU inside Replay: its LogDel finds a.enabled = false and returns.
logDelInReplay(w, victim) ==
    IF victim = NoKeys THEN w
    ELSE logCommand(w, FALSE, DelCommand(CHOOSE k \in victim : TRUE), "ok")

\* A run of the recovery: the Index, the clock, the AOF file as the recovery
\* has left it so far, and the keys evicted on the way.
ReplayRun(idx, clock, w, evicted) ==
    [idx |-> idx, clock |-> clock, w |-> w, evicted |-> evicted]

\* Replay, the loop from token i on, started from any of `runs`:
\* [failed, runs], failed when the scanner stops with an error.
RECURSIVE replayAll(_, _, _, _, _)
replayAll(runs, tokens, i, mk, hi) ==
    IF i > Len(tokens) THEN [failed |-> FALSE, runs |-> runs]
    ELSE IF tokenTooLong(tokens[i]) THEN [failed |-> TRUE, runs |-> runs]
    ELSE replayAll(UNION { { ReplayRun(n.idx, n.clock, logDelInReplay(r.w, n.victim),
                                       r.evicted \cup n.victim)
                             : n \in replayToken(r.idx, mk, tokens[i], r.clock, hi) }
                           : r \in runs },
                   tokens, i + 1, mk, hi)

\* The state Replay starts from: the Index LoadSnapshot built at clock t and
\* the AOF file as NewAOF opened it.
replayStart(snap, lines, tail, t) ==
    ReplayRun(loadSnapshot(EmptyIndex, snap, t), t,
              WriterState(lines, tail, TRUE, FALSE, FALSE), NoKeys)

\* NewCache: LoadSnapshot into the empty Index, then Replay of the AOF file, with
\* the clock reads in lo..hi.
recover(snap, lines, tail, mk, lo, hi) ==
    replayAll({ replayStart(snap, lines, tail, t) : t \in lo..hi },
              scanTokens(lines, tail), 1, mk, hi)

\* ----------------------------------------------------- observations
Op(op, key, value, ttl, ret, victim, logged) ==
    [op |-> op, key |-> key, value |-> value, ttl |-> ttl, ret |-> ret,
     victim |-> victim, logged |-> logged]

NoOp == Op("None", "", "", 0, "", NoKeys, FALSE)

CrashRecord(kind, idx, at) ==
    [kind |-> kind, data |-> idx.data, expires |-> idx.expires, at |-> at]

NoCrash == CrashRecord("none", EmptyIndex, 0)

orderAfter(s, idx) == SeqRemove(s, Keys \ DOMAIN idx.lastAccess)

\* The keys of la, oldest access first (equal times in KeyOrder).
RECURSIVE orderOf(_, _)
orderOf(la, t) ==
    IF t > MaxTime + MaxDrift THEN <<>>
    ELSE SelectSeq(KeyOrder, LAMBDA k : k \in DOMAIN la /\ la[k] = t) \o orderOf(la, t + 1)

\* -------------------------------------------------------- goroutines
\* The goroutines that call into the cache: two request workers, the cleaner
\* of main, the callers of CreateSnapshotAndClearAOF (the loop of
\* SnapshotManager.run, and a second one for a Start that follows a Stop)
\* and the goroutine that starts, stops and closes.
Workers == {"w1", "w2"}
Loops == {"snap", "snap2"}
Procs == Workers \cup {"cleaner", "admin"} \cup Loops
NoOne == "none"

Call(op, key, value, ttl, log, ticket) ==
    [op |-> op, key |-> key, value |-> value, ttl |-> ttl, log |-> log, ticket |-> ticket,
     at |-> 0, todo |-> NoKeys, entries |-> EmptyMap]

NoCall == Call("None", "", "", 0, <<>>, 0)

\* NewSnapshotManager: not running, stopChan open, no loop goroutine.
NewSnapshotManager == [mu |-> NoOne, running |-> FALSE, closed |-> FALSE, loop |-> {}]

\* -------------------------------------------------------------- Init
\* The state after the first NewCache, on a disk without files, for a
\* configured maxKeys of mk, a disk and a process that may still produce
\* nFaults errors and nCrashes crashes, and an AOF of at most room lines.
Start(mk, nFaults, nCrashes, room) ==
    /\ phase = "up"
    /\ maxKeys = mk
    /\ now = 1
    /\ data = EmptyMap
    /\ expires = EmptyMap
    /\ lastAccess = EmptyMap
    /\ aofLines = <<>>
    /\ aofTail = <<>>
    /\ writerOK = TRUE
    /\ snapshot = <<>>
    /\ faults = nFaults
    /\ crashes = nCrashes
    /\ aofRoom = room
    /\ tmpFile = <<>>
    /\ last = NoOp
    /\ order = <<>>
    /\ crashIdx = NoCrash
    /\ pc = [p \in Procs |-> "idle"]
    /\ req = [p \in Procs |-> NoCall]
    /\ mu = NoOne
    /\ aofMu = NoOne
    /\ sm = NewSnapshotManager
    /\ hist = <<>>
    /\ tickets = 0

\* ----------------------------------------------------------- actions
\* The end of the process: memory and goroutines are gone, the files stay.
Halt(kind, idx, at) ==
    /\ phase' = "down"
    /\ data' = EmptyMap
    /\ expires' = EmptyMap
    /\ lastAccess' = EmptyMap
    /\ order' = <<>>
    /\ writerOK' = FALSE
    /\ last' = Op("Crash", "", "", 0, "", NoKeys, FALSE)
    /\ crashIdx' = CrashRecord(kind, idx, at)
    /\ pc' = [p \in Procs |-> "idle"]
    /\ req' = [p \in Procs |-> NoCall]
    /\ mu' = NoOne
    /\ aofMu' = NoOne
    /\ sm' = NewSnapshotManager
    /\ hist' = <<>>
    /\ tickets' = 0

\* The process is killed: one of the crashes the environment may produce.
Dies(kind, idx, at) ==
    /\ crashes' = crashes - 1
    /\ Halt(kind, idx, at)

\* A Set or Del that puts the Index back when the write of its record failed.
PersistOrUnwind(w, nFaults, idx, op, ord) ==
    /\ Len(w.lines) <= aofRoom
    /\ aofLines' = w.lines
    /\ aofTail' = w.tail
    /\ faults' = faults - nFaults
    /\ UNCHANGED <<snapshot, maxKeys, aofRoom, tmpFile>>
    /\ IF w.dead
       THEN Dies("torn", Idx, now')
       ELSE /\ UNCHANGED <<phase, crashes, threads>>
            /\ data' = IF w.err THEN data ELSE idx.data
            /\ expires' = IF w.err THEN expires ELSE idx.expires
            /\ lastAccess' = IF w.err THEN lastAccess ELSE idx.lastAccess
            /\ order' = IF w.err THEN order ELSE ord
            /\ writerOK' = w.usable
            /\ last' = op
            /\ crashIdx' = NoCrash

\* What a Set or Del that ends with writer state w leaves: the file, the
\* writer and, unless the process died in the write, the Index.
Persist(w, nFaults, idx, op, ord) ==
    /\ Len(w.lines) <= aofRoom
    /\ aofLines' = w.lines
    /\ aofTail' = w.tail
    /\ faults' = faults - nFaults
    /\ UNCHANGED <<snapshot, maxKeys, aofRoom, tmpFile>>
    /\ IF w.dead
       THEN Dies("torn", Idx, now')
       ELSE /\ UNCHANGED <<phase, crashes, threads>>
            /\ data' = idx.data
            /\ expires' = idx.expires
            /\ lastAccess' = idx.lastAccess
            /\ order' = ord
            /\ writerOK' = w.usable
            /\ last' = op
            /\ crashIdx' = NoCrash

FaultCount(ios) == Cardinality({i \in DOMAIN ios : ios[i] \in IoErrors})

\* Cache.Set, reached from setHandler.
Set(key, value, ttl) ==
    /\ phase = "up"
    /\ \E run \in setInternal(Idx, maxKeys, key, value, ttl, now, Horizon) :
         LET evicts == run.victim # NoKeys
             delCmd == DelCommand(CHOOSE k \in run.victim \cup {key} :
                                      evicts => k \in run.victim)
             setCmd == SetCommand(key, value, ttl)
         IN  \E ioDel \in IF evicts THEN Injectable(Writer, delCmd) ELSE {"ok"} :
               LET w1 == IF evicts THEN logCommand(Writer, TRUE, delCmd, ioDel)
                         ELSE Writer
               IN  \E ioSet \in Injectable(w1, setCmd) :
                     LET w2 == logCommand(w1, TRUE, setCmd, ioSet)
                         n == FaultCount(<<ioDel, ioSet>>)
                     IN  /\ n <= faults
                         /\ now' = run.clock
                         /\ Persist(w2, n, run.idx,
                                    Op("Set", key, value, ttl, "OK", run.victim, ~w2.err),
                                    Touch(orderAfter(order, run.idx), key))

\* Cache.Del, reached from delHandler.
Del(key) ==
    /\ phase = "up"
    /\ LET cmd == DelCommand(key)
           idx == delInternal(Idx, key)
       IN  \E io \in Injectable(Writer, cmd) :
             LET w == logCommand(Writer, TRUE, cmd, io)
             IN  /\ now' = now
                 /\ Persist(w, FaultCount(<<io>>), idx,
                            Op("Del", key, "", 0, "OK", NoKeys, ~w.err),
                            orderAfter(order, idx))

\* A Get that logs the deletion of the key it finds expired.
GetLogged(key) ==
    /\ phase = "up"
    /\ \E run \in getRuns(Idx, key, now, Horizon) :
         LET lazy == hasKey(Idx, key) /\ run.ret = NotFound
         IN  /\ now' = run.clock
             /\ data' = run.idx.data
             /\ expires' = run.idx.expires
             /\ lastAccess' = run.idx.lastAccess
             /\ last' = Op("Get", key, "", 0, run.ret,
                           IF lazy THEN {key} ELSE NoKeys, FALSE)
             /\ order' = IF run.ret = NotFound THEN orderAfter(order, run.idx)
                         ELSE Touch(order, key)
             /\ aofLines' = IF lazy THEN Append(aofLines, <<DelCommand(key)>>)
                            ELSE aofLines
    /\ crashIdx' = NoCrash
    /\ UNCHANGED <<phase, maxKeys, aofTail, writerOK, snapshot, faults, crashes,
                   aofRoom, tmpFile, threads>>

\* Cache.Get, reached from getHandler.
Get(key) ==
    /\ phase = "up"
    /\ \E run \in getRuns(Idx, key, now, Horizon) :
         /\ now' = run.clock
         /\ data' = run.idx.data
         /\ expires' = run.idx.expires
         /\ lastAccess' = run.idx.lastAccess
         /\ last' = Op("Get", key, "", 0, run.ret,
                       IF hasKey(Idx, key) /\ run.ret = NotFound THEN {key} ELSE NoKeys,
                       FALSE)
         /\ order' = IF run.ret = NotFound THEN orderAfter(order, run.idx)
                     ELSE Touch(order, key)
    /\ crashIdx' = NoCrash
    /\ UNCHANGED <<phase, maxKeys, aofLines, aofTail, writerOK, snapshot, faults,
                   crashes, aofRoom, tmpFile, threads>>

\* ---- the HTTP handlers
\* A request body: key and value ("" when the field is missing or empty) and
\* the optional ttl in seconds, <<>> when the field is absent.
HttpKeys == TwoKeys \cup {""}
HttpValues == {"", "v"}
HttpTTLs == {<<>>, <<-1>>, <<1>>}
BadRequest == "400"

requestTTL(ttlOpt) == IF ttlOpt = <<>> THEN 0 ELSE ttlOpt[1]

\* A validation that looks at the key only.
badSetRequestKeyOnly(key, value, ttlOpt) == key = ""

\* setHandler, the validation: missing key or value, negative ttl.
badSetRequest(key, value, ttlOpt) ==
    key = "" \/ value = "" \/ (ttlOpt # <<>> /\ ttlOpt[1] < 0)

\* delHandler, the validation.
badDelRequest(key) == key = ""

\* A handler answers 400 and returns before it calls the cache.
Rejected(op) ==
    /\ phase = "up"
    /\ last' = op
    /\ UNCHANGED <<phase, maxKeys, now, data, expires, lastAccess, aofLines, aofTail,
                   writerOK, snapshot, faults, crashes, aofRoom, tmpFile, threads, order, crashIdx>>

setHandler(key, value, ttlOpt) ==
    IF badSetRequest(key, value, ttlOpt)
    THEN Rejected(Op("Set", key, value, requestTTL(ttlOpt), BadRequest, NoKeys, FALSE))
    ELSE Set(key, value, requestTTL(ttlOpt))

delHandler(key) ==
    IF badDelRequest(key)
    THEN Rejected(Op("Del", key, "", 0, BadRequest, NoKeys, FALSE))
    ELSE Del(key)

getHandler(key) == Get(key)

\* Cache.Cleanup, the cleaner's tick.
Cleanup ==
    /\ phase = "up"
    /\ \E t \in now..Horizon :
         LET idx == cleanupExpiredLocked(Idx, t)
         IN  /\ now' = t
             /\ data' = idx.data
             /\ expires' = idx.expires
             /\ lastAccess' = idx.lastAccess
             /\ order' = orderAfter(order, idx)
    /\ last' = Op("Cleanup", "", "", 0, "", NoKeys, FALSE)
    /\ crashIdx' = NoCrash
    /\ UNCHANGED <<phase, maxKeys, aofLines, aofTail, writerOK, snapshot, faults,
                   crashes, aofRoom, tmpFile, threads>>

\* CreateSnapshotAndClearAOF, the snapshot loop's tick, with no operation in
\* between SaveSnapshot and ClearAOF.  SaveSnapshot publishes the file by rename
\* or leaves the old one; ClearAOF fails at its flush or close when the writer
\* is broken, and may fail before or after the truncation.
SnapshotOutcomes == {"ok", "saveErr", "clearErrBefore", "clearErrAfter"}

\* A task that calls ClearAOF whatever SaveSnapshot returned.
truncatesAOFAlways(outcome, usable) == outcome # "clearErrBefore" /\ usable

\* CreateSnapshotAndClearAOF reaches the truncation of ClearAOF: SaveSnapshot
\* returned nil, and the flush and the close of the writer succeeded.
truncatesAOF(outcome, usable) == outcome \in {"ok", "clearErrAfter"} /\ usable

CreateSnapshotAndClearAOF(outcome) ==
    /\ phase = "up"
    /\ outcome # "ok" => faults > 0
    /\ \E t \in now..Horizon :
         /\ now' = t
         /\ snapshot' = IF outcome = "saveErr" THEN snapshot
                        ELSE <<snapshotEntries(Idx, t)>>
    /\ LET cleared == truncatesAOF(outcome, writerOK)
       IN  /\ aofLines' = IF cleared THEN <<>> ELSE aofLines
           /\ aofTail' = IF cleared THEN <<>> ELSE aofTail
           /\ writerOK' = (writerOK /\ outcome \in {"ok", "saveErr"})
           /\ last' = Op("Snapshot", "", "", 0,
                         IF outcome = "saveErr" THEN "saveErr"
                         ELSE IF outcome = "ok" /\ writerOK THEN "OK" ELSE "clearErr",
                         NoKeys, FALSE)
    /\ faults' = IF outcome = "ok" THEN faults ELSE faults - 1
    /\ crashIdx' = NoCrash
    /\ UNCHANGED <<phase, maxKeys, data, expires, lastAccess, crashes, aofRoom, tmpFile, threads, order>>

\* CreateSnapshotAndClearAOF cut short: SaveSnapshot has published the new
\* snapshot and the process is killed before ClearAOF truncates the AOF.
SnapshotThenCrash ==
    /\ phase = "up"
    /\ crashes > 0
    /\ \E t \in now..Horizon :
         /\ now' = t
         /\ snapshot' = <<snapshotEntries(Idx, t)>>
         /\ Dies("snapshot", Idx, t)
    /\ UNCHANGED <<maxKeys, aofLines, aofTail, faults, aofRoom, tmpFile>>

\* The operator restarts the server with another maxKeys argument.
Configure(mk) ==
    /\ phase = "down"
    /\ mk # maxKeys
    /\ maxKeys' = mk
    /\ UNCHANGED <<phase, now, data, expires, lastAccess, aofLines, aofTail, writerOK,
                   snapshot, faults, crashes, aofRoom, tmpFile, threads, last, order, crashIdx>>

\* The process is killed between two operations.
Crash ==
    /\ phase = "up"
    /\ crashes > 0
    /\ Dies("idle", Idx, now)
    /\ UNCHANGED <<maxKeys, now, aofLines, aofTail, snapshot, faults, aofRoom, tmpFile>>

\* Durations that are not whole seconds -----------------------------------
\* time.Second, with the millisecond as the unit of the clock and of ttl.
Second == 1000

\* The ttl arguments of Cache.Set: none, half a second, one second, one and
\* a half.
Durations == {0, 500, 1000, 1500}

\* LogSet: int(ttl.Seconds()), the conversion of a float64 to int, truncates.
ttlSeconds(ttl) == IF ttl > 0 THEN ttl \div Second ELSE 0

\* Replay: time.Duration(cmd.TTL) * time.Second.
durationOf(seconds) == seconds * Second

\* Cache.Set with any time.Duration as ttl, on a disk without faults: the
\* Index part, then LogSet with the seconds of the ttl.
SetFor(key, value, ttl) ==
    /\ phase = "up"
    /\ \E run \in setInternal(Idx, maxKeys, key, value, ttl, now, now) :
         /\ now' = run.clock
         /\ Persist(logCommand(Writer, TRUE, SetCommand(key, value, ttlSeconds(ttl)), "ok"),
                    0, run.idx, Op("Set", key, value, ttl, "OK", run.victim, TRUE),
                    Touch(orderAfter(order, run.idx), key))

\* Replay from line i on at clock t, the ttl of a SET record taken as seconds.
RECURSIVE replayDurations(_, _, _, _, _)
replayDurations(idx, mk, lines, i, t) ==
    IF i > Len(lines) THEN idx
    ELSE LET parsed == parseLine(lines[i])
             next == IF parsed = <<>> THEN idx
                     ELSE IF parsed[1].op = "SET"
                     THEN (CHOOSE run \in setInternal(idx, mk, parsed[1].key, parsed[1].value,
                                                      durationOf(parsed[1].ttl), t, t) : TRUE).idx
                     ELSE delInternal(idx, parsed[1].key)
         IN  replayDurations(next, mk, lines, i + 1, t)

\* NewCache on restart, without a snapshot file: Replay at one clock value.
NewCacheFor ==
    /\ phase = "down"
    /\ snapshot = <<>>
    /\ LET idx == replayDurations(EmptyIndex, maxKeys, scanTokens(aofLines, aofTail), 1, now)
       IN  /\ data' = idx.data
           /\ expires' = idx.expires
           /\ lastAccess' = idx.lastAccess
           /\ order' = SelectSeq(KeyOrder, LAMBDA k : k \in DOMAIN idx.data)
    /\ phase' = "up"
    /\ writerOK' = TRUE
    /\ last' = Op("NewCache", "", "", 0, "OK", NoKeys, FALSE)
    /\ UNCHANGED <<maxKeys, now, aofLines, aofTail, snapshot, faults, crashes, aofRoom,
                   tmpFile, threads, crashIdx>>

\* While the server is down the snapshot file is lost or damaged: removed,
\* cut to zero length, cut short, or altered so that it does not decode.
DamageSnapshot(how) ==
    /\ phase = "down"
    /\ decodes(snapshot)
    /\ snapshot' = IF how = "absent" THEN <<>> ELSE damaged(snapshot[1], how)
    /\ UNCHANGED <<phase, maxKeys, now, data, expires, lastAccess, aofLines, aofTail,
                   writerOK, faults, crashes, aofRoom, tmpFile, threads, last, order, crashIdx>>

\* NewCache on restart: LoadSnapshot, NewAOF, Replay, reopenForWriting.
NewCache ==
    /\ phase = "down"
    /\ LET res == recover(snapshot, aofLines, aofTail, maxKeys, now, Horizon)
       IN  \E r \in res.runs :
             /\ now' = r.clock
             /\ aofLines' = r.w.lines
             /\ aofTail' = r.w.tail
             /\ IF res.failed
                THEN /\ phase' = "failed"
                     /\ UNCHANGED <<data, expires, lastAccess, writerOK, order>>
                     /\ last' = Op("NewCache", "", "", 0, "error", r.evicted, FALSE)
                ELSE /\ phase' = "up"
                     /\ data' = r.idx.data
                     /\ expires' = r.idx.expires
                     /\ lastAccess' = r.idx.lastAccess
                     /\ writerOK' = TRUE
                     /\ order' = orderOf(r.idx.lastAccess, 0)
                     /\ last' = Op("NewCache", "", "", 0, "OK", r.evicted, FALSE)
    /\ UNCHANGED <<maxKeys, snapshot, faults, crashes, aofRoom, tmpFile, threads, crashIdx>>

\* Time passes between operations.
Tick ==
    /\ now < MaxTime
    /\ now' = now + 1
    /\ UNCHANGED <<phase, maxKeys, data, expires, lastAccess, aofLines, aofTail,
                   writerOK, snapshot, faults, crashes, aofRoom, tmpFile, threads, last, order, crashIdx>>

\* ------------------------------------------- the calls, step by step
\* The same calls as above, cut at the points where a goroutine waits for a
\* mutex: Cache.mu (mu), AOF.mu (aofMu) and SnapshotManager.mu (sm.mu).  The
\* code between two such points is one step.
pcAfter(op) ==
    IF op \in {"Start", "Stop"} THEN "lockSm"
    ELSE IF op = "Close" THEN "lockAof"
    ELSE "lockIndex"

\* Set and Del calls begun whose Index part has not run yet.
waitingCalls == Cardinality({p \in Procs : pc[p] = "lockIndex" /\ req[p].op \in {"Set", "Del"}})

\* A goroutine enters a call and reaches the Lock() the call starts with.  The
\* calls that log are explored as long as aofRoom has a line for each.
Begin(p, op, key, value, ttl) ==
    /\ phase = "up"
    /\ pc[p] = "idle"
    /\ op \in {"Set", "Del"} => tickets + waitingCalls < aofRoom
    /\ pc' = [pc EXCEPT ![p] = pcAfter(op)]
    /\ req' = [req EXCEPT ![p] = Call(op, key, value, ttl, <<>>, 0)]
    /\ UNCHANGED <<phase, maxKeys, now, data, expires, lastAccess, aofLines, aofTail,
                   writerOK, snapshot, faults, crashes, aofRoom, tmpFile, last, order, crashIdx,
                   mu, aofMu, sm, hist, tickets>>

\* An eviction that logs its DEL after the SET of the new key.
recordsOfSetLast(victim, setCmd) ==
    IF victim = NoKeys THEN <<setCmd>>
    ELSE <<setCmd, DelCommand(CHOOSE k \in victim : TRUE)>>

\* The records a Set logs, in the order of the calls: LogDel of the evicted key
\* inside evictLRU, then LogSet at the end of Set.
recordsOfSet(victim, setCmd) ==
    IF victim = NoKeys THEN <<setCmd>>
    ELSE <<DelCommand(CHOOSE k \in victim : TRUE), setCmd>>

\* Set up to the call of LogSet: c.mu.Lock(), the sweep, the eviction, the
\* inserts.  The records the call logs wait for AOF.mu, the eviction's DEL first.
SetIndex(p) ==
    /\ pc[p] = "lockIndex"
    /\ req[p].op = "Set"
    /\ mu = NoOne
    /\ \E run \in setInternal(Idx, maxKeys, req[p].key, req[p].value, req[p].ttl,
                              now, Horizon) :
         LET setCmd == SetCommand(req[p].key, req[p].value, req[p].ttl)
             log == recordsOfSet(run.victim, setCmd)
         IN  /\ now' = run.clock
             /\ data' = run.idx.data
             /\ expires' = run.idx.expires
             /\ lastAccess' = run.idx.lastAccess
             /\ order' = Touch(orderAfter(order, run.idx), req[p].key)
             /\ req' = [req EXCEPT ![p].log = log, ![p].ticket = tickets + 1]
    /\ mu' = p
    /\ tickets' = tickets + 1
    /\ pc' = [pc EXCEPT ![p] = "lockAof"]
    /\ UNCHANGED <<phase, maxKeys, aofLines, aofTail, writerOK, snapshot, faults,
                   crashes, aofRoom, tmpFile, last, crashIdx, aofMu, sm, hist>>

\* A Del that gives Cache.mu back before it logs.
DelIndexUnlocked(p) ==
    /\ pc[p] = "lockIndex"
    /\ req[p].op = "Del"
    /\ mu = NoOne
    /\ LET idx == delInternal(Idx, req[p].key)
       IN  /\ data' = idx.data
           /\ expires' = idx.expires
           /\ lastAccess' = idx.lastAccess
           /\ order' = orderAfter(order, idx)
    /\ req' = [req EXCEPT ![p].log = <<DelCommand(req[p].key)>>, ![p].ticket = tickets + 1]
    /\ mu' = NoOne
    /\ tickets' = tickets + 1
    /\ pc' = [pc EXCEPT ![p] = "lockAof"]
    /\ UNCHANGED <<phase, maxKeys, now, aofLines, aofTail, writerOK, snapshot, faults,
                   crashes, aofRoom, tmpFile, last, crashIdx, aofMu, sm, hist>>

\* Del up to the call of LogDel: c.mu.Lock(), the deletes.
DelIndex(p) ==
    /\ pc[p] = "lockIndex"
    /\ req[p].op = "Del"
    /\ mu = NoOne
    /\ LET idx == delInternal(Idx, req[p].key)
       IN  /\ data' = idx.data
           /\ expires' = idx.expires
           /\ lastAccess' = idx.lastAccess
           /\ order' = orderAfter(order, idx)
    /\ req' = [req EXCEPT ![p].log = <<DelCommand(req[p].key)>>, ![p].ticket = tickets + 1]
    /\ mu' = p
    /\ tickets' = tickets + 1
    /\ pc' = [pc EXCEPT ![p] = "lockAof"]
    /\ UNCHANGED <<phase, maxKeys, now, aofLines, aofTail, writerOK, snapshot, faults,
                   crashes, aofRoom, tmpFile, last, crashIdx, aofMu, sm, hist>>

\* Get, from c.mu.Lock() to its return: it takes no other lock.
GetLocked(p) ==
    /\ pc[p] = "lockIndex"
    /\ req[p].op = "Get"
    /\ mu = NoOne
    /\ \E run \in getRuns(Idx, req[p].key, now, Horizon) :
         /\ now' = run.clock
         /\ data' = run.idx.data
         /\ expires' = run.idx.expires
         /\ lastAccess' = run.idx.lastAccess
         /\ last' = Op("Get", req[p].key, "", 0, run.ret,
                       IF hasKey(Idx, req[p].key) /\ run.ret = NotFound
                       THEN {req[p].key} ELSE NoKeys, FALSE)
         /\ order' = IF run.ret = NotFound THEN orderAfter(order, run.idx)
                     ELSE Touch(order, req[p].key)
    /\ pc' = [pc EXCEPT ![p] = "idle"]
    /\ req' = [req EXCEPT ![p] = NoCall]
    /\ crashIdx' = NoCrash
    /\ UNCHANGED <<phase, maxKeys, aofLines, aofTail, writerOK, snapshot, faults,
                   crashes, aofRoom, tmpFile, mu, aofMu, sm, hist, tickets>>

\* Cleanup, from c.mu.Lock() to its return.
CleanupLocked(p) ==
    /\ pc[p] = "lockIndex"
    /\ req[p].op = "Cleanup"
    /\ mu = NoOne
    /\ \E t \in now..Horizon :
         LET idx == cleanupExpiredLocked(Idx, t)
         IN  /\ now' = t
             /\ data' = idx.data
             /\ expires' = idx.expires
             /\ lastAccess' = idx.lastAccess
             /\ order' = orderAfter(order, idx)
    /\ last' = Op("Cleanup", "", "", 0, "", NoKeys, FALSE)
    /\ pc' = [pc EXCEPT ![p] = "idle"]
    /\ req' = [req EXCEPT ![p] = NoCall]
    /\ crashIdx' = NoCrash
    /\ UNCHANGED <<phase, maxKeys, aofLines, aofTail, writerOK, snapshot, faults,
                   crashes, aofRoom, tmpFile, mu, aofMu, sm, hist, tickets>>

\* CreateSnapshotAndClearAOF, its first half: SaveSnapshot under c.mu, from
\* Lock() to the rename and the unlock; ClearAOF is next.
SaveSnapshot(p) ==
    /\ pc[p] = "lockIndex"
    /\ req[p].op = "Snapshot"
    /\ mu = NoOne
    /\ \E t \in now..Horizon :
         /\ now' = t
         /\ snapshot' = <<snapshotEntries(Idx, t)>>
    /\ pc' = [pc EXCEPT ![p] = "lockAof"]
    /\ UNCHANGED <<phase, maxKeys, data, expires, lastAccess, aofLines, aofTail,
                   writerOK, faults, crashes, aofRoom, tmpFile, last, order, crashIdx,
                   req, mu, aofMu, sm, hist, tickets>>

\* SaveSnapshot, step by step ------------------------------------------
\* A SaveSnapshot that copies the maps without c.mu.
SaveSnapshotNoLock(p) ==
    /\ pc[p] = "lockIndex"
    /\ req[p].op = "SaveSnapshot"
    /\ \E t \in now..Horizon :
         /\ now' = t
         /\ req' = [req EXCEPT ![p].at = t, ![p].todo = DOMAIN data]
    /\ pc' = [pc EXCEPT ![p] = "copy"]
    /\ UNCHANGED <<phase, maxKeys, data, expires, lastAccess, aofLines, aofTail,
                   writerOK, snapshot, faults, crashes, aofRoom, tmpFile, last, order,
                   crashIdx, mu, aofMu, sm, hist, tickets>>

\* c.mu.Lock(), the two time.Now() and the start of the range loop.
SaveSnapshotLock(p) ==
    /\ pc[p] = "lockIndex"
    /\ req[p].op = "SaveSnapshot"
    /\ mu = NoOne
    /\ mu' = p
    /\ \E t \in now..Horizon :
         /\ now' = t
         /\ req' = [req EXCEPT ![p].at = t, ![p].todo = DOMAIN data]
    /\ pc' = [pc EXCEPT ![p] = "copy"]
    /\ UNCHANGED <<phase, maxKeys, data, expires, lastAccess, aofLines, aofTail,
                   writerOK, snapshot, faults, crashes, aofRoom, tmpFile, last, order,
                   crashIdx, aofMu, sm, hist, tickets>>

\* One iteration of the range loop, on any key not visited yet (Go's map
\* order): an expired key is skipped, any other is appended with its value
\* and its expiry.  A key deleted since the loop began is not produced.
SaveSnapshotCopy(p) ==
    /\ pc[p] = "copy"
    /\ req[p].todo # NoKeys
    /\ \E key \in req[p].todo :
         LET one == snapshotEntries(Index([k \in {key} \cap DOMAIN data |-> data[k]],
                                          [k \in {key} \cap DOMAIN expires |-> expires[k]],
                                          EmptyMap), req[p].at)
         IN  req' = [req EXCEPT ![p].todo = @ \ {key},
                                ![p].entries = [k \in DOMAIN @ \cup DOMAIN one |->
                                                   IF k \in DOMAIN one THEN one[k] ELSE @[k]]]
    /\ UNCHANGED <<phase, maxKeys, now, data, expires, lastAccess, aofLines, aofTail,
                   writerOK, snapshot, faults, crashes, aofRoom, tmpFile, last, order,
                   crashIdx, pc, mu, aofMu, sm, hist, tickets>>

\* The return of SaveSnapshot with an error: the deferred c.mu.Unlock().
SaveSnapshotFails(p) ==
    /\ faults > 0
    /\ faults' = faults - 1
    /\ last' = Op("SaveSnapshot", "", "", 0, "error", NoKeys, FALSE)
    /\ mu' = NoOne
    /\ pc' = [pc EXCEPT ![p] = "idle"]
    /\ req' = [req EXCEPT ![p] = NoCall]
    /\ crashIdx' = NoCrash

\* A SaveSnapshot that creates and writes the file at snapshotPath itself.
SaveSnapshotInPlace(p, ok) ==
    /\ pc[p] = "copy"
    /\ req[p].todo = NoKeys
    /\ IF ok
       THEN /\ snapshot' = damaged(EmptyMap, "empty")
            /\ tmpFile' = damaged(EmptyMap, "empty")
            /\ pc' = [pc EXCEPT ![p] = "encode"]
            /\ UNCHANGED <<faults, last, crashIdx, req, mu>>
       ELSE /\ SaveSnapshotFails(p)
            /\ UNCHANGED <<snapshot, tmpFile>>
    /\ UNCHANGED <<phase, maxKeys, now, data, expires, lastAccess, aofLines, aofTail,
                   writerOK, crashes, aofRoom, order, aofMu, sm, hist, tickets>>

\* os.Create(tmpPath) after the loop: a new file of zero length, or a file
\* cut to zero length, at snapshotPath + ".tmp"; or an error.
SaveSnapshotCreate(p, ok) ==
    /\ pc[p] = "copy"
    /\ req[p].todo = NoKeys
    /\ IF ok
       THEN /\ tmpFile' = damaged(EmptyMap, "empty")
            /\ pc' = [pc EXCEPT ![p] = "encode"]
            /\ UNCHANGED <<faults, last, crashIdx, req, mu>>
       ELSE /\ SaveSnapshotFails(p)
            /\ UNCHANGED tmpFile
    /\ UNCHANGED <<phase, maxKeys, now, data, expires, lastAccess, aofLines, aofTail,
                   writerOK, snapshot, crashes, aofRoom, order, aofMu, sm, hist, tickets>>

\* encoder.Encode, file.Sync and file.Close on the temporary file: all three
\* succeed and the file holds the encoding; or one fails and the file is
\* removed; or the process is killed with the file partly written.
SaveSnapshotEncode(p, outcome) ==
    /\ pc[p] = "encode"
    /\ outcome \in {"ok", "err", "torn"}
    /\ IF outcome = "ok"
       THEN /\ tmpFile' = encodeSnapshot(req[p].entries)
            /\ pc' = [pc EXCEPT ![p] = "rename"]
            /\ UNCHANGED <<phase, data, expires, lastAccess, writerOK, faults, crashes,
                           last, order, crashIdx, req, mu, aofMu, sm, hist, tickets>>
       ELSE IF outcome = "err"
       THEN /\ SaveSnapshotFails(p)
            /\ tmpFile' = <<>>
            /\ UNCHANGED <<phase, data, expires, lastAccess, writerOK, crashes, order,
                           aofMu, sm, hist, tickets>>
       ELSE /\ crashes > 0
            /\ tmpFile' = damaged(req[p].entries, "torn")
            /\ Dies("save", Idx, now)
            /\ UNCHANGED faults
    /\ UNCHANGED <<maxKeys, now, aofLines, aofTail, snapshot, aofRoom>>

\* os.Rename(tmpPath, snapshotPath): the file at snapshotPath is replaced in
\* one step by the temporary file; or the rename fails and the temporary
\* file is removed.  Then the deferred c.mu.Unlock().
SaveSnapshotRename(p, ok) ==
    /\ pc[p] = "rename"
    /\ IF ok
       THEN /\ snapshot' = tmpFile
            /\ last' = Op("SaveSnapshot", "", "", 0, "OK", NoKeys, FALSE)
            /\ mu' = NoOne
            /\ pc' = [pc EXCEPT ![p] = "idle"]
            /\ req' = [req EXCEPT ![p] = NoCall]
            /\ crashIdx' = NoCrash
            /\ UNCHANGED faults
       ELSE /\ SaveSnapshotFails(p)
            /\ UNCHANGED snapshot
    /\ tmpFile' = <<>>
    /\ UNCHANGED <<phase, maxKeys, now, data, expires, lastAccess, aofLines, aofTail,
                   writerOK, crashes, aofRoom, order, aofMu, sm, hist, tickets>>

\* a.mu.Lock() in LogSet, LogDel, ClearAOF and AOF.Close.
LockAof(p) ==
    /\ pc[p] = "lockAof"
    /\ aofMu = NoOne
    /\ aofMu' = p
    /\ pc' = [pc EXCEPT ![p] = "inAof"]
    /\ UNCHANGED <<phase, maxKeys, now, data, expires, lastAccess, aofLines, aofTail,
                   writerOK, snapshot, faults, crashes, aofRoom, tmpFile, last, order, crashIdx,
                   req, mu, sm, hist, tickets>>

\* LogSet / LogDel under a.mu: writeCommand of the caller's next record, then
\* a.mu.Unlock().  Cache.mu stays with the caller.
LogRecord(p) ==
    /\ pc[p] = "inAof"
    /\ req[p].op \in {"Set", "Del"}
    /\ LET cmd == Head(req[p].log)
           w == logCommand(Writer, TRUE, cmd, "ok")
       IN  /\ aofLines' = w.lines
           /\ aofTail' = w.tail
           /\ writerOK' = w.usable
           /\ hist' = IF w.err THEN hist
                      ELSE Append(hist, [ticket |-> req[p].ticket, op |-> req[p].op,
                                         cmd |-> cmd])
    /\ req' = [req EXCEPT ![p].log = Tail(req[p].log)]
    /\ pc' = [pc EXCEPT ![p] = IF Len(req[p].log) > 1 THEN "lockAof" ELSE "unlockIndex"]
    /\ aofMu' = NoOne
    /\ UNCHANGED <<phase, maxKeys, now, data, expires, lastAccess, snapshot, faults,
                   crashes, aofRoom, tmpFile, last, order, crashIdx, mu, sm, tickets>>

\* The deferred c.mu.Unlock() of Set and Del: the call returns.
Return(p) ==
    /\ pc[p] = "unlockIndex"
    /\ last' = Op(req[p].op, req[p].key, req[p].value, req[p].ttl, "OK", NoKeys, TRUE)
    /\ mu' = NoOne
    /\ pc' = [pc EXCEPT ![p] = "idle"]
    /\ req' = [req EXCEPT ![p] = NoCall]
    /\ crashIdx' = NoCrash
    /\ UNCHANGED <<phase, maxKeys, now, data, expires, lastAccess, aofLines, aofTail,
                   writerOK, snapshot, faults, crashes, aofRoom, tmpFile, order,
                   aofMu, sm, hist, tickets>>

\* A ClearAOF that, holding a.mu, goes back to take c.mu for the snapshot.
ClearAOFThenSnapshot(p) ==
    /\ pc[p] = "inAof"
    /\ req[p].op = "Snapshot"
    /\ pc' = [pc EXCEPT ![p] = "lockIndex"]
    /\ UNCHANGED <<phase, maxKeys, now, data, expires, lastAccess, aofLines, aofTail,
                   writerOK, snapshot, faults, crashes, aofRoom, tmpFile, last, order, crashIdx,
                   req, mu, aofMu, sm, hist, tickets>>

\* CreateSnapshotAndClearAOF, its second half: ClearAOF under a.mu.  Its flush
\* or close fails on a broken or closed writer, before the truncation.
ClearAOF(p) ==
    /\ pc[p] = "inAof"
    /\ req[p].op = "Snapshot"
    /\ aofLines' = IF writerOK THEN <<>> ELSE aofLines
    /\ aofTail' = IF writerOK THEN <<>> ELSE aofTail
    /\ last' = Op("Snapshot", "", "", 0, IF writerOK THEN "OK" ELSE "clearErr",
                  NoKeys, FALSE)
    /\ aofMu' = NoOne
    /\ pc' = [pc EXCEPT ![p] = "idle"]
    /\ req' = [req EXCEPT ![p] = NoCall]
    /\ crashIdx' = NoCrash
    /\ UNCHANGED <<phase, maxKeys, now, data, expires, lastAccess, writerOK, snapshot,
                   faults, crashes, aofRoom, tmpFile, order, mu, sm, hist, tickets>>

\* Cache.Close = AOF.Close under a.mu: the file is closed, later writes fail.
CloseAof(p) ==
    /\ pc[p] = "inAof"
    /\ req[p].op = "Close"
    /\ writerOK' = FALSE
    /\ last' = Op("Close", "", "", 0, "", NoKeys, FALSE)
    /\ aofMu' = NoOne
    /\ pc' = [pc EXCEPT ![p] = "idle"]
    /\ req' = [req EXCEPT ![p] = NoCall]
    /\ crashIdx' = NoCrash
    /\ UNCHANGED <<phase, maxKeys, now, data, expires, lastAccess, aofLines, aofTail,
                   snapshot, faults, crashes, aofRoom, tmpFile, order, mu, sm, hist, tickets>>

\* sm.mu.Lock() in Start and Stop.
LockSm(p) ==
    /\ pc[p] = "lockSm"
    /\ sm.mu = NoOne
    /\ sm' = [sm EXCEPT !.mu = p]
    /\ pc' = [pc EXCEPT ![p] = "inSm"]
    /\ UNCHANGED <<phase, maxKeys, now, data, expires, lastAccess, aofLines, aofTail,
                   writerOK, snapshot, faults, crashes, aofRoom, tmpFile, last, order, crashIdx,
                   req, mu, aofMu, hist, tickets>>

\* SnapshotManager.Start under sm.mu: an error when running, else `go sm.run()`
\* starts one more loop goroutine, whether or not an earlier one has returned.
\* The new goroutine is one of `spare`; with all of them running it is not
\* told apart from them.
StartLocked(p, spare) ==
    /\ pc[p] = "inSm"
    /\ req[p].op = "Start"
    /\ sm' = IF sm.running THEN [sm EXCEPT !.mu = NoOne]
             ELSE [sm EXCEPT !.mu = NoOne, !.running = TRUE,
                             !.loop = IF spare \subseteq @ THEN @
                                      ELSE @ \cup {CHOOSE l \in spare \ @ : TRUE}]
    /\ last' = Op("Start", "", "", 0, IF sm.running THEN "error" ELSE "OK", NoKeys, FALSE)
    /\ pc' = [pc EXCEPT ![p] = "idle"]
    /\ req' = [req EXCEPT ![p] = NoCall]
    /\ crashIdx' = NoCrash
    /\ UNCHANGED <<phase, maxKeys, now, data, expires, lastAccess, aofLines, aofTail,
                   writerOK, snapshot, faults, crashes, aofRoom, tmpFile, order,
                   mu, aofMu, hist, tickets>>

\* SnapshotManager.Stop under sm.mu: nothing when not running; else
\* close(sm.stopChan), which panics when the channel is closed already.
StopLocked(p) ==
    /\ pc[p] = "inSm"
    /\ req[p].op = "Stop"
    /\ IF sm.running /\ sm.closed
       THEN /\ Halt("panic", Idx, now)
            /\ UNCHANGED crashes
       ELSE /\ sm' = IF sm.running
                     THEN [sm EXCEPT !.mu = NoOne, !.running = FALSE, !.closed = TRUE]
                     ELSE [sm EXCEPT !.mu = NoOne]
            /\ last' = Op("Stop", "", "", 0, "", NoKeys, FALSE)
            /\ pc' = [pc EXCEPT ![p] = "idle"]
            /\ req' = [req EXCEPT ![p] = NoCall]
            /\ crashIdx' = NoCrash
            /\ UNCHANGED <<phase, data, expires, lastAccess, writerOK, crashes, order,
                           mu, aofMu, hist, tickets>>
    /\ UNCHANGED <<maxKeys, now, aofLines, aofTail, snapshot, faults, aofRoom, tmpFile>>

\* SnapshotManager.run, the ticker case: the loop calls
\* CreateSnapshotAndClearAOF.  The select has no priority: the case can be
\* taken while stopChan is closed.
LoopTick(l) == l \in sm.loop /\ Begin(l, "Snapshot", "", "", 0)

\* SnapshotManager.run, the stopChan case: the loop returns.
LoopExit(l) ==
    /\ phase = "up"
    /\ l \in sm.loop
    /\ sm.closed
    /\ pc[l] = "idle"
    /\ sm' = [sm EXCEPT !.loop = @ \ {l}]
    /\ UNCHANGED <<phase, maxKeys, now, data, expires, lastAccess, aofLines, aofTail,
                   writerOK, snapshot, faults, crashes, aofRoom, tmpFile, last, order, crashIdx,
                   pc, req, mu, aofMu, hist, tickets>>

\* The running cache: two keys, unlimited or capacity one.
Init == \E mk \in {0, Cardinality(TwoKeys) - 1} : Start(mk, 0, 0, MaxAofLines)

Next ==
    \/ \E key \in TwoKeys, value \in Values, ttl \in TTLs : Set(key, value, ttl)
    \/ \E key \in TwoKeys : Del(key)
    \/ \E key \in TwoKeys : Get(key)
    \/ Cleanup
    \/ Tick

Spec == Init /\ [][Next]_vars

\* The running cache under LRU pressure: three keys, capacity two; the key
\* "a" may carry a TTL.
InitLRU == Start(Cardinality(Keys) - 1, 0, 0, MaxAofLines + 1)

NextLRU ==
    \/ \E key \in Keys : \E ttl \in IF key = "a" THEN TTLs ELSE {0} : Set(key, "v", ttl)
    \/ \E key \in Keys : Del(key)
    \/ \E key \in Keys : Get(key)
    \/ Cleanup
    \/ Tick

SpecLRU == InitLRU /\ [][NextLRU]_vars

\* The running cache on a disk that fails: write, flush and sync errors, and
\* the failures of the snapshot task.
InitDisk == \E mk \in {0, Cardinality(TwoKeys) - 1} : Start(mk, MaxFaults, 0, MaxAofLines)

NextDisk ==
    \/ \E key \in TwoKeys : Set(key, "v", 0)
    \/ \E key \in TwoKeys : Del(key)
    \/ \E key \in TwoKeys : Get(key)
    \/ \E outcome \in SnapshotOutcomes : CreateSnapshotAndClearAOF(outcome)
    \/ Tick

SpecDisk == InitDisk /\ [][NextDisk]_vars

\* Crash and recovery: the process dies between operations or inside a write
\* and is started again.
InitRecovery == Start(0, 0, MaxCrashes, MaxAofLines - 1)

NextRecovery ==
    \/ \E value \in {"v", LongValue}, ttl \in TTLs : Set("a", value, ttl)
    \/ Del("a")
    \/ Get("a")
    \/ Cleanup
    \/ CreateSnapshotAndClearAOF("ok")
    \/ Crash
    \/ NewCache
    \/ Tick

SpecRecovery == InitRecovery /\ [][NextRecovery]_vars

\* The server behind its HTTP handlers, requests with missing fields and
\* negative ttl included.
InitHTTP == \E mk \in {0, Cardinality(TwoKeys) - 1} : Start(mk, 0, 0, MaxAofLines)

NextHTTP ==
    \/ \E key \in HttpKeys, value \in HttpValues, ttlOpt \in HttpTTLs :
          setHandler(key, value, ttlOpt)
    \/ \E key \in HttpKeys : delHandler(key)
    \/ \E key \in HttpKeys : getHandler(key)
    \/ Tick

SpecHTTP == InitHTTP /\ [][NextHTTP]_vars

\* Restarts: a crash between operations or inside the snapshot task, and a
\* restart with the same or another maxKeys; the key "a" may carry a TTL.
InitRestart == Start(0, 0, MaxCrashes, MaxAofLines - 1)

NextRestart ==
    \/ \E key \in TwoKeys : \E ttl \in IF key = "a" THEN TTLs ELSE {0} : Set(key, "v", ttl)
    \/ \E key \in TwoKeys : Del(key)
    \/ \E key \in TwoKeys : Get(key)
    \/ CreateSnapshotAndClearAOF("ok")
    \/ SnapshotThenCrash
    \/ Crash
    \/ \E mk \in {0, Cardinality(TwoKeys) - 1} : Configure(mk)
    \/ NewCache
    \/ Tick

SpecRestart == InitRestart /\ [][NextRestart]_vars

\* Concurrent callers under LRU pressure: two request workers and a caller of
\* CreateSnapshotAndClearAOF on three keys with capacity two.
InitConcurrent == Start(Cardinality(Keys) - 1, 0, 0, MaxAofLines)

NextConcurrent ==
    \/ \E p \in Workers, key \in Keys : Begin(p, "Set", key, "v", 0)
    \/ \E p \in Workers : Begin(p, "Del", "a", "", 0)
    \/ \E p \in Workers : Begin(p, "Get", "a", "", 0)
    \/ Begin("snap", "Snapshot", "", "", 0)
    \/ \E p \in Procs : SetIndex(p)
    \/ \E p \in Procs : DelIndex(p)
    \/ \E p \in Procs : GetLocked(p)
    \/ \E p \in Procs : SaveSnapshot(p)
    \/ \E p \in Procs : LockAof(p)
    \/ \E p \in Procs : LogRecord(p)
    \/ \E p \in Procs : ClearAOF(p)
    \/ \E p \in Procs : Return(p)

SpecConcurrent == InitConcurrent /\ [][NextConcurrent]_vars

\* Every goroutine of the server on one key: a request worker, the cleaner,
\* the snapshot loop and the goroutine that starts and stops the snapshot
\* manager and closes the cache.
InitLocks == Start(0, 0, 0, MaxAofLines - 1)

NextLocks ==
    \/ \E op \in {"Set", "Del"} : Begin("w1", op, "a", IF op = "Set" THEN "v" ELSE "", 0)
    \/ Begin("cleaner", "Cleanup", "", "", 0)
    \/ \E op \in {"Start", "Stop", "Close"} : Begin("admin", op, "", "", 0)
    \/ LoopTick("snap")
    \/ LoopExit("snap")
    \/ \E p \in Procs : SetIndex(p)
    \/ \E p \in Procs : DelIndex(p)
    \/ \E p \in Procs : CleanupLocked(p)
    \/ \E p \in Procs : SaveSnapshot(p)
    \/ \E p \in Procs : LockAof(p)
    \/ \E p \in Procs : LogRecord(p)
    \/ \E p \in Procs : ClearAOF(p)
    \/ \E p \in Procs : CloseAof(p)
    \/ \E p \in Procs : Return(p)
    \/ \E p \in Procs : LockSm(p)
    \/ \E p \in Procs : StartLocked(p, {"snap"})
    \/ \E p \in Procs : StopLocked(p)

SpecLocks == InitLocks /\ [][NextLocks]_vars

\* SaveSnapshot, step by step, beside a request worker on two keys, with
\* and without a limit of one key, on a disk without faults.
InitSnapshot == \E mk \in 0..1 : Start(mk, 0, 0, MaxAofLines - 1)

NextSnapshot ==
    \/ \E key \in TwoKeys, ttl \in {0, 1} : Begin("w1", "Set", key, "v", ttl)
    \/ Begin("w1", "Del", "a", "", 0)
    \/ Begin("snap", "SaveSnapshot", "", "", 0)
    \/ \E p \in Procs : SetIndex(p)
    \/ \E p \in Procs : DelIndex(p)
    \/ \E p \in Procs : LockAof(p)
    \/ \E p \in Procs : LogRecord(p)
    \/ \E p \in Procs : Return(p)
    \/ \E p \in Procs : SaveSnapshotLock(p)
    \/ \E p \in Procs : SaveSnapshotCopy(p)
    \/ \E p \in Procs : SaveSnapshotCreate(p, TRUE)
    \/ \E p \in Procs : SaveSnapshotEncode(p, "ok")
    \/ \E p \in Procs : SaveSnapshotRename(p, TRUE)
    \/ Tick

SpecSnapshot == InitSnapshot /\ [][NextSnapshot]_vars

\* The snapshot file: SaveSnapshot step by step, on a disk that may fail once
\* and in a process that may be killed once, at any step, and started again.
InitSnapshotFile == Start(0, MaxFaults, MaxCrashes, MaxAofLines - 1)

NextSnapshotFile ==
    \/ \E key \in TwoKeys : Begin("w1", "Set", key, "v", 0)
    \/ Begin("snap", "SaveSnapshot", "", "", 0)
    \/ \E p \in Procs : SetIndex(p)
    \/ \E p \in Procs : LockAof(p)
    \/ \E p \in Procs : LogRecord(p)
    \/ \E p \in Procs : Return(p)
    \/ \E p \in Procs : SaveSnapshotLock(p)
    \/ \E p \in Procs : SaveSnapshotCopy(p)
    \/ \E p \in Procs, ok \in BOOLEAN : SaveSnapshotCreate(p, ok)
    \/ \E p \in Procs, outcome \in {"ok", "err", "torn"} : SaveSnapshotEncode(p, outcome)
    \/ \E p \in Procs, ok \in BOOLEAN : SaveSnapshotRename(p, ok)
    \/ Crash
    \/ NewCache

SpecSnapshotFile == InitSnapshotFile /\ [][NextSnapshotFile]_vars

\* Restarts on a snapshot file that was lost or damaged while the server was
\* down.
InitLoad == Start(0, 0, MaxCrashes, MaxAofLines - 1)

NextLoad ==
    \/ \E key \in TwoKeys : \E ttl \in IF key = "a" THEN TTLs ELSE {0} : Set(key, "v", ttl)
    \/ \E key \in TwoKeys : Del(key)
    \/ CreateSnapshotAndClearAOF("ok")
    \/ SnapshotThenCrash
    \/ Crash
    \/ \E how \in Damages \cup {"absent"} : DamageSnapshot(how)
    \/ NewCache
    \/ Tick

SpecLoad == InitLoad /\ [][NextLoad]_vars

\* Expiry: entries with and without a ttl under Set, Get, Del, the cleaner
\* and the snapshot task, with and without a limit of one key.
InitExpiry == \E mk \in {0, Cardinality(TwoKeys) - 1} : Start(mk, 0, 0, MaxAofLines - 1)

NextExpiry ==
    \/ \E key \in TwoKeys, ttl \in TTLs : Set(key, "v", ttl)
    \/ \E key \in TwoKeys : Del(key)
    \/ \E key \in TwoKeys : Get(key)
    \/ Cleanup
    \/ CreateSnapshotAndClearAOF("ok")
    \/ Tick

SpecExpiry == InitExpiry /\ [][NextExpiry]_vars

\* The snapshot manager: a goroutine that calls Start and Stop in any order,
\* the loops these calls start, and a request worker beside them.
InitManager == Start(0, 0, 0, MaxAofLines - 1)

NextManager ==
    \/ Begin("w1", "Set", "a", "v", 0)
    \/ \E op \in {"Start", "Stop"} : Begin("admin", op, "", "", 0)
    \/ \E l \in Loops : LoopTick(l)
    \/ \E l \in Loops : LoopExit(l)
    \/ \E p \in Procs : SetIndex(p)
    \/ \E p \in Procs : SaveSnapshot(p)
    \/ \E p \in Procs : LockAof(p)
    \/ \E p \in Procs : LogRecord(p)
    \/ \E p \in Procs : ClearAOF(p)
    \/ \E p \in Procs : Return(p)
    \/ \E p \in Procs : LockSm(p)
    \/ \E p \in Procs : StartLocked(p, Loops)
    \/ \E p \in Procs : StopLocked(p)

SpecManager == InitManager /\ [][NextManager]_vars

\* Set with a ttl of any duration, a crash, and the recovery from the AOF.
InitTTL == Start(0, 0, MaxCrashes, MaxAofLines - 1)

NextTTL ==
    \/ \E key \in TwoKeys, ttl \in Durations : SetFor(key, "v", ttl)
    \/ Crash
    \/ NewCacheFor

SpecTTL == InitTTL /\ [][NextTTL]_vars

\* Every operation that writes the three maps of the Index: Set with and
\* without eviction, Get, Del, Cleanup, and a restart with LoadSnapshot and
\* Replay.
InitIndex == \E mk \in {0, Cardinality(TwoKeys) - 1} : Start(mk, 0, MaxCrashes, MaxAofLines - 1)

NextIndex ==
    \/ \E key \in TwoKeys : \E ttl \in IF key = "a" THEN TTLs ELSE {0} : Set(key, "v", ttl)
    \/ \E key \in TwoKeys : Del(key)
    \/ \E key \in TwoKeys : Get(key)
    \/ Cleanup
    \/ CreateSnapshotAndClearAOF("ok")
    \/ Crash
    \/ NewCache
    \/ Tick

SpecIndex == InitIndex /\ [][NextIndex]_vars

\* ------------------------------------------------------- properties
\* A step of Set: the only operation that leaves last.op = "Set" and a longer
\* or rewritten AOF (on a disk without faults every Set appends its record).
SetStep == last'.op = "Set" /\ aofLines' # aofLines

\* The record LogSet / LogDel builds for the operation recorded in `last`.
RecordOf(op) ==
    IF op.op = "Set" THEN SetCommand(op.key, op.value, op.ttl) ELSE DelCommand(op.key)

\* The keys of the Index not expired at clock t, least recently used first.
liveOrder(t) == SelectSeq(order, LAMBDA k : ~isExpired(Idx, k, t))

\* The (data, expires) parts of the Indexes a recovery can end with.
recovered(res) == {[data |-> r.idx.data, expires |-> r.idx.expires] : r \in res.runs}

\* C1: after a crash between operations (complete AOF, intact snapshot) the
\* Index rebuilt by NewCache has the keys, values and expires_at the Index had
\* at the moment of the crash.
C1RecoveryEquivalence ==
    (phase = "up" /\ last.op = "NewCache" /\ crashIdx.kind = "idle")
        => (data = crashIdx.data /\ expires = crashIdx.expires)

C3Capacity ==
    (phase = "up" /\ maxKeys > 0) => countValidKeys(Idx, now) <= maxKeys

\* C4 as stated: the key evicted by a Set is the least recently used (by Set or
\* successful Get) of the non-expired keys.
C4EvictsLeastRecentlyUsed ==
    [][(SetStep /\ last'.victim # NoKeys)
          => last'.victim = {Head(liveOrder(now))}]_vars

\* C4 amended: the key evicted by a Set is a non-expired key whose lastAccess
\* is the minimum over the non-expired keys, any one of them when several
\* share that minimum; it is the least recently used key when no other
\* non-expired key shares its lastAccess and no key expires during the Set.
\* Every Set and every successful Get of a key sets its lastAccess to the
\* clock reading of the call.
C4EvictsOldestAccess ==
    [][/\ (SetStep /\ last'.victim # NoKeys) =>
            \A k \in last'.victim :
               /\ hasKey(Idx, k)
               /\ ~isExpired(Idx, k, now)
               /\ \A o \in DOMAIN lastAccess :
                     ~isExpired(Idx, o, now') => lastAccess[k] <= lastAccess[o]
               /\ ( /\ ExpiredAt(Idx, now) = ExpiredAt(Idx, now')
                    /\ \A o \in DOMAIN lastAccess \ {k} :
                          ~isExpired(Idx, o, now) => lastAccess[o] # lastAccess[k] )
                  => k = Head(liveOrder(now))
       /\ SetStep => lastAccess'[last'.key] = now'
       /\ \A k \in Keys :
            (Get(k) /\ last'.ret # NotFound) => lastAccess'[k] = now'
      ]_vars

C4Witness ==
    /\ last.op = "Set" /\ last.key = "c" /\ last.victim = {"b"}
    /\ DOMAIN data = {"a", "c"}
    /\ lastAccess["a"] < lastAccess["c"]

\* C5: a Get of a key at a time after its expires_at returns not-found and
\* leaves the key in none of data, expires and lastAccess, whether the key was
\* still in the maps or had been swept before.
C5ExpiredGet ==
    [][\A k \in Keys :
          (Get(k) /\ (~hasKey(Idx, k) \/ isExpired(Idx, k, now)))
             => /\ last'.ret = NotFound
                /\ k \notin DOMAIN data'
                /\ k \notin DOMAIN expires'
                /\ k \notin DOMAIN lastAccess'
      ]_vars

C5Witness ==
    /\ last.op = "Get" /\ last.ret = NotFound /\ last.victim = {last.key}
    /\ last.key \notin DOMAIN data

\* C6: a Get(k) that is the next operation after Set(k, v, 0) returns v.
C6GetAfterSet ==
    [][\A k \in Keys :
          (last.op = "Set" /\ last.key = k /\ last.ttl = 0 /\ Get(k))
             => last'.ret = last.value
      ]_vars

C6Witness ==
    /\ last.op = "Get" /\ last.ret = "w"
    /\ maxKeys > 0
    /\ expires[last.key] = ZeroTime
    /\ lastAccess[last.key] = now
    /\ Len(aofLines) > 1
    /\ aofLines[Len(aofLines)] = <<SetCommand(last.key, "w", 0)>>
    /\ aofLines[Len(aofLines) - 1] = <<SetCommand(last.key, "v", 0)>>

\* C7: a key live after recovery was live at the moment of the crash: a key
\* that had expired, been deleted or been evicted before is not live again.
C7NoResurrection ==
    (phase = "up" /\ last.op = "NewCache" /\ crashIdx.kind = "idle")
        => \A k \in DOMAIN data :
              ~isExpired(Idx, k, now)
                 => /\ k \in DOMAIN crashIdx.data
                    /\ ~isExpired(Index(crashIdx.data, crashIdx.expires, EmptyMap),
                                  k, crashIdx.at)

\* C8: after a successful CreateSnapshotAndClearAOF, recovery from the new
\* snapshot and the emptied AOF gives, at every instant, the Index that
\* recovery from the prior snapshot and the full AOF would have given.
C8SnapshotPreservesRecovery ==
    [][(CreateSnapshotAndClearAOF("ok") /\ writerOK) =>
          \A t \in now'..MaxTime :
             LET old == recover(snapshot, aofLines, aofTail, maxKeys, t, t)
                 new == recover(snapshot', aofLines', aofTail', maxKeys, t, t)
             IN  ~old.failed => (~new.failed /\ recovered(new) = recovered(old))
      ]_vars

\* C9: when the AOF ends with a truncated final line, recovery succeeds and
\* the recovered Index is the one the complete lines before it give.
C9TruncatedTail ==
    (last.op = "NewCache" /\ aofTail # <<>> /\ aofTail[Len(aofTail)].op = "TORN")
        => /\ phase = "up"
           /\ [data |-> data, expires |-> expires]
                 \in recovered(recover(snapshot, aofLines, <<>>, maxKeys, 1, now))

\* C10: the Set (of a value of ordinary size) that follows a recovery from an
\* AOF with a truncated final line is recovered by a later restart: its key
\* is present with its value.
C10SetAfterTruncation ==
    (phase = "up" /\ crashes < MaxCrashes /\ last.op = "Set" /\ last.logged
        /\ last.value # LongValue)
        => LET res == recover(snapshot, aofLines, aofTail, maxKeys, now, now)
           IN  /\ ~res.failed
               /\ \A r \in res.runs :
                     /\ last.key \in DOMAIN r.idx.data
                     /\ r.idx.data[last.key] = last.value

\* The lines a Set leaves behind its predecessors: DEL of the evicted key, if
\* any, then its own SET.
setLines(op) ==
    (IF op.victim = NoKeys THEN <<>>
     ELSE <<<<DelCommand(CHOOSE k \in op.victim : TRUE)>>>>)
    \o <<<<RecordOf(op)>>>>

\* C13: a Set evicts only when the entries not expired when it begins number
\* maxKeys or more; when they are fewer, nothing is evicted and every entry
\* still unexpired when the Set ends stays (with maxKeys = 2: Set(a, ttl),
\* Set(b), expiry of a, Set(c) leaves b and c).
C13ExpiredNotCounted ==
    [][SetStep =>
          /\ last'.victim # NoKeys => countValidKeys(Idx, now) >= maxKeys
          /\ countValidKeys(Idx, now) < maxKeys =>
                /\ last'.victim = NoKeys
                /\ last'.key \in DOMAIN data'
                /\ \A k \in DOMAIN data : ~isExpired(Idx, k, now') => k \in DOMAIN data'
      ]_vars

C13Witness ==
    /\ last.op = "Set" /\ last.key = "c" /\ last.victim = NoKeys
    /\ DOMAIN data = {"b", "c"}
    /\ aofLines = << <<SetCommand("a", "v", 1)>>, <<SetCommand("b", "v", 0)>>,
                     <<SetCommand("c", "v", 0)>> >>

\* C14: Get (hit, miss or lazy expiry) and Cleanup leave the AOF file as it
\* is, and a Set appends the DEL of the key it evicts, if any, and its own SET,
\* nothing for the keys its sweep removes.
C14ExpiryNotLogged ==
    [][/\ \A k \in Keys : Get(k) => UNCHANGED <<aofLines, aofTail>>
       /\ Cleanup => UNCHANGED <<aofLines, aofTail>>
       /\ SetStep => /\ aofTail' = aofTail
                     /\ aofLines' = aofLines \o setLines(last')
      ]_vars

C14Witness ==
    /\ last.op = "Get" /\ last.ret = NotFound /\ last.victim = {last.key}
    /\ data = EmptyMap
    /\ \E v \in Values : aofLines = << <<SetCommand(last.key, v, 1)>> >>

\* C15: Del(k) returns OK whether k is present, absent or expired, leaves k in
\* none of the maps and every other key as it was; a second Del(k) directly
\* after the first changes nothing in the Index.
C15DelIdempotent ==
    [][\A k \in Keys :
          Del(k) =>
             /\ last'.ret = "OK"
             /\ k \notin DOMAIN data' \cup DOMAIN expires' \cup DOMAIN lastAccess'
             /\ Remove(data, {k}) = data'
             /\ Remove(expires, {k}) = expires'
             /\ Remove(lastAccess, {k}) = lastAccess'
             /\ (last.op = "Del" /\ last.key = k) =>
                    (data' = data /\ expires' = expires /\ lastAccess' = lastAccess)
      ]_vars

C15Witness ==
    /\ last.op = "Del"
    /\ DOMAIN data = TwoKeys \ {last.key}
    /\ Len(aofLines) > 2
    /\ aofLines[Len(aofLines)] = <<DelCommand(last.key)>>
    /\ aofLines[Len(aofLines) - 1] = <<DelCommand(last.key)>>

\* C17: a /set request with an empty key, an empty value or a negative ttl,
\* and a /del request with an empty key, is answered 400 and leaves the Index
\* and the AOF file as they were.
C17InvalidInputRejected ==
    [][/\ \A key \in HttpKeys, value \in HttpValues, ttlOpt \in HttpTTLs :
            ((key = "" \/ value = "" \/ requestTTL(ttlOpt) < 0)
               /\ setHandler(key, value, ttlOpt))
            => /\ last'.ret = BadRequest
               /\ UNCHANGED <<data, expires, lastAccess, aofLines, aofTail>>
       /\ delHandler("")
            => /\ last'.ret = BadRequest
               /\ UNCHANGED <<data, expires, lastAccess, aofLines, aofTail>>
      ]_vars

C17Witness ==
    /\ last.op = "Set" /\ last.ret = BadRequest
    /\ last.key = "a" /\ last.value = ""
    /\ "a" \in DOMAIN data
    /\ data["a"] = "v"
    /\ aofLines = << <<SetCommand("a", "v", 0)>> >>

\* C19: after a crash between SaveSnapshot and ClearAOF, recovery from the new
\* snapshot and the un-truncated AOF gives the keys and values of the
\* snapshot (of its entries not expired at the time of the recovery).
C19SnapshotSubsumesAof ==
    (phase = "up" /\ last.op = "NewCache" /\ crashIdx.kind = "snapshot")
        => \E t \in crashIdx.at..now :
              data = loadSnapshot(EmptyIndex, snapshot, t).data

\* C20: after a recovery with maxKeys > 0 (here from a snapshot alone, the AOF
\* being empty) the non-expired entries number at most maxKeys.
C20CapacityAfterRecovery ==
    (phase = "up" /\ last.op = "NewCache" /\ maxKeys > 0
        /\ aofLines = <<>> /\ aofTail = <<>>)
        => countValidKeys(Idx, now) <= maxKeys

\* ---- concurrent callers
\* The commands of the records appended to the AOF, as lines of the file.
histLines == [i \in 1..Len(hist) |-> <<hist[i].cmd>>]

\* The AOF file holds the last records appended, in the order of the appends.
aofIsTailOfHist ==
    \E n \in 0..Len(hist) : aofLines = SubSeq(histLines, n + 1, Len(hist))

\* C11: the records of the AOF are in the order in which the Set and Del
\* calls they describe acquired the Index lock (tickets number the
\* acquisitions, and a call that began after another returned acquires later),
\* and the file holds its records in that order.
C11RecordOrder ==
    /\ \A i, j \in 1..Len(hist) : i < j => hist[i].ticket <= hist[j].ticket
    /\ \A p \in Procs : pc[p] \in {"lockAof", "inAof"} /\ req[p].op \in {"Set", "Del"}
          => \A i \in 1..Len(hist) : hist[i].ticket <= req[p].ticket
    /\ aofIsTailOfHist

\* Two calls overlap: one waits for the Index lock that the other holds, and
\* records of two different acquisitions are in the file.
C11Witness ==
    /\ \E p, q \in Workers : pc[p] = "lockIndex" /\ mu = q /\ pc[q] = "unlockIndex"
    /\ Len(aofLines) >= 2
    /\ hist[1].ticket # hist[Len(hist)].ticket

\* The lines a sequence of records makes in the file.
linesOf(cmds) == [i \in 1..Len(cmds) |-> <<cmds[i]>>]

\* The eviction's DEL and the SET of the new key are appended one after the
\* other: a DEL appended by a Set is followed by the SET of the same call, or
\* the call is about to append that SET; a Set that has not yet logged its
\* eviction logs DEL of a key it removed, then SET of its own key.
evictionRecordsAdjacent ==
    /\ \A i \in 1..Len(hist) :
          (hist[i].op = "Set" /\ hist[i].cmd.op = "DEL")
              => IF i < Len(hist)
                 THEN hist[i + 1].ticket = hist[i].ticket /\ hist[i + 1].cmd.op = "SET"
                 ELSE \E p \in Procs :
                        /\ pc[p] \in {"lockAof", "inAof"}
                        /\ req[p].ticket = hist[i].ticket
                        /\ Len(req[p].log) = 1
                        /\ req[p].log[1].op = "SET"
    /\ \A p \in Procs :
          (req[p].op = "Set" /\ Len(req[p].log) = 2)
              => /\ req[p].log[1].op = "DEL"
                 /\ req[p].log[1].key \notin DOMAIN data
                 /\ req[p].log[2] = SetCommand(req[p].key, req[p].value, req[p].ttl)
    /\ (snapshot = <<>> /\ req["snap"].op # "Snapshot") => aofLines = histLines

\* The example: capacity 2, Set(a), Set(b) and a Get(a) that hit have
\* returned, nothing else was logged, and p's Set(c) runs its Index part.
exampleSetC(p) ==
    /\ maxKeys = 2
    /\ histLines = linesOf(<<SetCommand("a", "v", 0), SetCommand("b", "v", 0)>>)
    /\ aofLines = histLines
    /\ last.op = "Get" /\ last.key = "a" /\ last.ret # NotFound
    /\ req[p].key = "c"
    /\ SetIndex(p)

exampleAof ==
    linesOf(<<SetCommand("a", "v", 0), SetCommand("b", "v", 0),
              DelCommand("b"), SetCommand("c", "v", 0)>>)

\* C12 as stated: the eviction's DEL and the SET are appended in that order and
\* adjacent, also under concurrent callers; and with max_keys=2, after Set(a),
\* Set(b), Get(a), the records of Set(c) make the AOF exactly
\* SET a; SET b; DEL b; SET c.
C12EvictionLogged ==
    /\ []evictionRecordsAdjacent
    /\ [][\A p \in Workers :
            exampleSetC(p) => aofLines \o linesOf(req'[p].log) = exampleAof]_vars

\* C12, amended: the same, the example for calls that read distinct clock
\* values (b's last access is older than a's).
C12EvictionLoggedDistinctClocks ==
    /\ []evictionRecordsAdjacent
    /\ [][\A p \in Workers :
            (exampleSetC(p) /\ lastAccess["b"] < lastAccess["a"])
                => aofLines \o linesOf(req'[p].log) = exampleAof]_vars

\* The example's AOF is on disk, written while the other worker waits for the
\* Index lock that the evicting Set still holds.
C12Witness ==
    /\ aofLines = exampleAof
    /\ lastAccess["a"] < lastAccess["c"]
    /\ \E p, q \in Workers : mu = p /\ pc[p] = "unlockIndex" /\ pc[q] = "lockIndex"

\* C18: whenever no Set or Del is between its Index mutation and its return,
\* so that the Index is the result of the calls that have returned, a recovery
\* from the snapshot and the AOF on disk yields the keys and values of the
\* Index: no returned call is missing from both files, also while
\* CreateSnapshotAndClearAOF runs.
C18ReturnedCallsOnDisk ==
    mu = NoOne
        => \E r \in recover(snapshot, aofLines, aofTail, maxKeys, now, Horizon).runs :
              r.idx.data = data

\* ---- locks
\* The goroutine that holds the mutex p waits for (NoOne when p does not wait
\* or the mutex is free).
waitsFor(p) ==
    IF pc[p] = "lockIndex" THEN mu
    ELSE IF pc[p] = "lockAof" THEN aofMu
    ELSE IF pc[p] = "lockSm" THEN sm.mu
    ELSE NoOne

blocked(p) == waitsFor(p) # NoOne

\* The steps of p that are not the start of a call.
advance(p) ==
    \/ SetIndex(p) \/ DelIndex(p) \/ CleanupLocked(p) \/ SaveSnapshot(p)
    \/ LockAof(p) \/ LogRecord(p) \/ ClearAOF(p) \/ CloseAof(p) \/ Return(p)
    \/ LockSm(p) \/ StartLocked(p, Loops) \/ StopLocked(p)

\* C16: the locks are taken in the order Index lock, then AOF lock: a
\* goroutine that waits for the Index lock holds no lock, the holder of the AOF
\* lock and the holder of the snapshot manager's lock wait for nothing, so
\* every goroutine that waits for a lock waits for one that runs, or for the
\* holder of the Index lock, which waits for one that runs; every goroutine
\* inside a call can take a step when its lock is free, and in no state are
\* all goroutines inside a call stuck.
C16LockOrder ==
    phase = "up" =>
        /\ \A p \in Procs : pc[p] = "lockIndex" => (aofMu # p /\ mu # p /\ sm.mu # p)
        /\ \A p \in Procs : aofMu = p => pc[p] = "inAof"
        /\ \A p \in Procs : sm.mu = p => pc[p] = "inSm"
        /\ \A p \in Procs : mu = p => pc[p] \in {"lockAof", "inAof", "unlockIndex"}
        /\ \A p \in Procs :
              blocked(p) => \/ ~blocked(waitsFor(p))
                            \/ ~blocked(waitsFor(waitsFor(p)))
        /\ \A p \in Procs : (pc[p] # "idle" /\ ~blocked(p)) => ENABLED advance(p)

\* The locks are contended: the worker holds the Index lock and waits for the
\* AOF lock, which the snapshot loop holds in ClearAOF; the cleaner waits for
\* the Index lock; the snapshot manager's lock is held.
C16Witness ==
    /\ mu = "w1" /\ pc["w1"] = "lockAof"
    /\ aofMu = "snap" /\ pc["snap"] = "inAof"
    /\ pc["cleaner"] = "lockIndex"
    /\ sm.mu = "admin"

\* ---- recovery and snapshot files
\* The tokens of the file that Replay is specified to apply or skip one by
\* one: every token, however long.
replaySkipping(snap, lines, tail, mk, lo, hi) ==
    replayAll({ replayStart(snap, lines, tail, t) : t \in lo..hi },
              SelectSeq(scanTokens(lines, tail), LAMBDA token : ~tokenTooLong(token)),
              1, mk, hi)

\* C21: whatever the AOF file holds (well-formed lines, malformed lines, lines
\* of any length), Replay returns without error, NewCache succeeds, and the
\* Index is the one the well-formed lines give when applied in file order.
C21ReplayNeverAborts ==
    last.op = "NewCache"
        => /\ last.ret = "OK"
           /\ phase = "up"
           /\ [data |-> data, expires |-> expires]
                 \in recovered(replaySkipping(snapshot, aofLines, aofTail, maxKeys, 1, now))

\* C22: recovery writes nothing to the AOF: the file after NewCache is the
\* file before it, also when replayed SET records evict; and the writer
\* accepts records again once NewCache has returned.
C22RecoveryWritesNothing ==
    [][NewCache => /\ aofLines' = aofLines
                   /\ aofTail' = aofTail
                   /\ (phase' = "up" => writerOK')]_vars

\* A recovery whose replay evicted a key has returned, the AOF not empty.
C22Witness ==
    /\ phase = "up"
    /\ last.op = "NewCache"
    /\ last.victim # NoKeys
    /\ aofLines # <<>>

\* C25: CreateSnapshotAndClearAOF truncates the AOF only after SaveSnapshot
\* has succeeded: when SaveSnapshot fails, the AOF and the snapshot file are
\* what they were; after a run that returned nil the AOF is empty; and the Set
\* that follows such a run leaves its records as the only lines of the file.
C25TruncateAfterSave ==
    [][/\ \A outcome \in SnapshotOutcomes :
             CreateSnapshotAndClearAOF(outcome)
                 => /\ last'.ret = "saveErr"
                        => (aofLines' = aofLines /\ aofTail' = aofTail
                            /\ snapshot' = snapshot)
                    /\ <<aofLines', aofTail'>> # <<aofLines, aofTail>>
                        => (outcome # "saveErr"
                            /\ \E t \in now..now' : snapshot' = <<snapshotEntries(Idx, t)>>)
                    /\ last'.ret = "OK" => (aofLines' = <<>> /\ aofTail' = <<>>)
       /\ (last.op = "Snapshot" /\ last.ret = "OK" /\ SetStep /\ last'.logged)
             => aofLines' = setLines(last')
      ]_vars

\* The disk has produced its fault, a snapshot is published, and the records
\* of the last Set are the only lines of the AOF while the Index holds two keys.
C25Witness ==
    /\ faults = 0
    /\ snapshot # <<>>
    /\ last.op = "Set" /\ last.logged
    /\ aofLines = setLines(last)
    /\ Cardinality(DOMAIN data) > 1

\* C26: a Set or Del whose record could not be written (write, flush or sync
\* error, in the eviction's DEL or in its own record) has returned normally and
\* its mutation is in the Index: a Get of the key finds the value set, or
\* nothing after a Del, and the evicted key is gone.
C26WriteErrorKeepsMutation ==
    (phase = "up" /\ last.op \in {"Set", "Del"} /\ ~last.logged)
        => /\ last.ret = "OK"
           /\ \A run \in getRuns(Idx, last.key, now, now) :
                 run.ret = IF last.op = "Set" THEN last.value ELSE NotFound
           /\ last.victim \cap DOMAIN data = {}

\* A Set that evicted has returned, its record not written, on the write in
\* which the disk produced its fault.
C26Witness ==
    /\ phase = "up"
    /\ last.op = "Set" /\ ~last.logged
    /\ last.victim # NoKeys
    /\ faults < MaxFaults
    /\ last.key \in DOMAIN data

\* ---- LRU choice and update in place
\* C29: the victim of an eviction is determined by the Index: from one Index
\* state and one clock value, every run of a Set of the same key evicts the
\* same key (the first in key order among the keys that share the oldest
\* last_access).
C29DeterministicVictim ==
    phase = "up"
        => \A key \in Keys :
              \A r1, r2 \in setInternal(Idx, maxKeys, key, "v", 0, now, now) :
                 /\ r1.victim = r2.victim
                 /\ \A k \in r1.victim : \A o \in DOMAIN lastAccess :
                       (~isExpired(Idx, o, now) /\ lastAccess[o] = lastAccess[k])
                           => \E i, j \in 1..Len(KeyOrder) :
                                 i <= j /\ KeyOrder[i] = k /\ KeyOrder[j] = o

\* C30: a Set of a key that is present and not expired updates it in place:
\* nothing is evicted; the key has the new value, an expires_at of a clock
\* reading of the call plus ttl (none for ttl = 0) and the last_access of the
\* call; every other entry that stays is unchanged, none is added, and the
\* ones that went were expired.
C30UpdateInPlace ==
    [][\A key \in Keys :
          (hasKey(Idx, key) /\ ~isExpired(Idx, key, now)
              /\ SetStep /\ last'.key = key)
              => /\ last'.victim = NoKeys
                 /\ data'[key] = last'.value
                 /\ IF last'.ttl > 0
                    THEN \E t \in now..now' : expires'[key] = t + last'.ttl
                    ELSE expires'[key] = ZeroTime
                 /\ lastAccess'[key] = now'
                 /\ \A o \in DOMAIN data' \ {key} :
                       /\ o \in DOMAIN data
                       /\ data'[o] = data[o]
                       /\ expires'[o] = expires[o]
                       /\ lastAccess'[o] = lastAccess[o]
                 /\ \A o \in DOMAIN data \ DOMAIN data' : isExpired(Idx, o, now')
      ]_vars

\* At capacity one, the key that had value "v" and an expiry was set again
\* with value "w" and no ttl: it is the only key, with no expiry.
C30Witness ==
    /\ maxKeys = 1
    /\ last.op = "Set" /\ last.key = "a" /\ last.value = "w" /\ last.ttl = 0
    /\ Len(aofLines) = 2
    /\ aofLines[1] = <<SetCommand("a", "v", 1)>>
    /\ aofLines[2] = <<SetCommand("a", "w", 0)>>
    /\ now <= 2
    /\ data = [k \in {"a"} |-> "w"]
    /\ expires["a"] = ZeroTime

\* ---- the snapshot file
\* C23: the snapshot SaveSnapshot publishes is the set of non-expired entries
\* of the Index at one point of the order of operations, the Index as it is
\* when the call returns, at the clock the call read: no Set, Del or eviction
\* of a concurrent call is reflected in part.
C23AtomicSnapshot ==
    [][\A p \in Procs :
          (pc[p] = "rename" /\ pc'[p] = "idle" /\ last'.ret = "OK")
              => /\ snapshot' = encodeSnapshot(snapshotEntries(Idx, req[p].at))
                 /\ Idx' = Idx
      ]_vars

\* A snapshot was published while a Set waited for the Index lock: it leaves
\* out the expired key the Index still holds.
C23Witness ==
    /\ last.op = "SaveSnapshot" /\ last.ret = "OK"
    /\ DOMAIN data = {"a"} /\ isExpired(Idx, "a", now)
    /\ snapshot = encodeSnapshot(EmptyMap)
    /\ pc["w1"] = "lockIndex" /\ req["w1"].op = "Set"

\* C24: the file at snapshotPath is absent or a complete snapshot at every
\* moment, it changes only in a rename that succeeds, and a SaveSnapshot that
\* returns an error, or a process killed inside SaveSnapshot, leaves it as it
\* was before the call.
C24PriorSnapshotIntact ==
    [][/\ snapshot' = <<>> \/ decodes(snapshot')
       /\ snapshot' # snapshot
             => \E p \in Procs : pc[p] = "rename" /\ last'.op = "SaveSnapshot" /\ last'.ret = "OK"
       /\ \A p \in Procs :
             (req[p].op = "SaveSnapshot"
              /\ (phase' = "down" \/ (pc'[p] = "idle" /\ last'.ret = "error")))
                 => snapshot' = snapshot
      ]_vars

\* The process was killed while SaveSnapshot wrote the temporary file: that
\* file holds part of the encoding of two entries, the file at snapshotPath
\* is the earlier snapshot of one entry.
C24Witness ==
    /\ phase = "down" /\ crashIdx.kind = "save"
    /\ Len(tmpFile) = 2 /\ tmpFile[2] = "torn" /\ DOMAIN tmpFile[1] = {"a", "b"}
    /\ decodes(snapshot) /\ DOMAIN snapshot[1] = {"a"}

\* C27: NewCache on a snapshot file that is absent, of zero length, cut short
\* or not decodable returns without error, and the Index it builds is the one
\* the replay of the AOF alone gives, from an empty Index.
C27DamagedSnapshotIgnored ==
    [][(phase = "down" /\ phase' # "down" /\ ~decodes(snapshot))
          => /\ last'.op = "NewCache" /\ last'.ret = "OK"
             /\ loadSnapshot(EmptyIndex, snapshot, now) = EmptyIndex
             /\ \E r \in replayAll({ReplayRun(EmptyIndex, t, WriterState(aofLines, aofTail, TRUE, FALSE, FALSE), NoKeys) :
                                       t \in now..Horizon},
                                   scanTokens(aofLines, aofTail), 1, maxKeys, Horizon).runs :
                   now' = r.clock /\ Idx' = r.idx
      ]_vars

\* The server came up on a snapshot file cut short that held key a, after the
\* AOF had been truncated: the Index is empty.
C27Witness ==
    /\ phase = "up" /\ last.op = "NewCache" /\ last.ret = "OK"
    /\ Len(snapshot) = 2 /\ snapshot[2] = "torn" /\ DOMAIN snapshot[1] = {"a"}
    /\ aofLines = <<>> /\ data = EmptyMap

\* C28: a snapshot that succeeds writes one entry for each key of the Index
\* not expired at the clock it read, with the key's value and expiry (the
\* zero time when it has none); a restart on that file and an empty AOF
\* leaves in the Index the entries of the file not expired at the load time,
\* with the value and the expiry of the file and the load time as lastAccess.
C28SnapshotRoundTrip ==
    [][/\ (phase = "up" /\ CreateSnapshotAndClearAOF("ok"))
             => /\ Len(snapshot') = 1
                /\ DOMAIN snapshot'[1] = {k \in DOMAIN data : ~isExpired(Idx, k, now')}
                /\ \A k \in DOMAIN snapshot'[1] :
                      /\ snapshot'[1][k].value = data[k]
                      /\ snapshot'[1][k].expires_at
                            = IF k \in DOMAIN expires THEN expires[k] ELSE ZeroTime
       /\ (phase = "down" /\ decodes(snapshot) /\ aofLines = <<>> /\ aofTail = <<>> /\ NewCache)
             => LET kept == {k \in DOMAIN snapshot[1] :
                                \/ snapshot[1][k].expires_at = ZeroTime
                                \/ now' <= snapshot[1][k].expires_at}
                IN  /\ phase' = "up"
                    /\ DOMAIN data' = kept
                    /\ \A k \in kept : /\ data'[k] = snapshot[1][k].value
                                       /\ expires'[k] = snapshot[1][k].expires_at
                                       /\ lastAccess'[k] = now'
      ]_vars

\* A restart on a snapshot of two entries and an empty AOF: key a, expired
\* since the snapshot, is dropped, key b is back with the load time as its
\* last access.
C28Witness ==
    /\ phase = "up" /\ last.op = "NewCache"
    /\ aofLines = <<>> /\ aofTail = <<>>
    /\ decodes(snapshot) /\ DOMAIN snapshot[1] = {"a", "b"}
    /\ snapshot[1]["a"].expires_at # ZeroTime
    /\ DOMAIN data = {"b"} /\ lastAccess["b"] = now

\* ---- expiry, background tasks, the snapshot manager
\* C31: Cleanup removes exactly the entries whose expiry is an instant before
\* the clock it read and leaves every other entry as it was; an entry without
\* expiry leaves the Index only by Del or as the victim of an eviction, never
\* in Cleanup, Get or the sweep of Set, and every snapshot contains it.
C31SentinelNeverExpires ==
    [][/\ Cleanup
             => LET gone == {k \in DOMAIN data : /\ k \in DOMAIN expires
                                                 /\ expires[k] # ZeroTime
                                                 /\ expires[k] < now'}
                IN  /\ DOMAIN data' = DOMAIN data \ gone
                    /\ \A k \in DOMAIN data' : /\ data'[k] = data[k]
                                               /\ expires'[k] = expires[k]
                                               /\ lastAccess'[k] = lastAccess[k]
       /\ \A k \in DOMAIN data :
             (k \in DOMAIN expires /\ expires[k] = ZeroTime)
                 => /\ k \notin DOMAIN data'
                          => \/ last'.op = "Del" /\ last'.key = k
                             \/ last'.op = "Set" /\ k \in last'.victim
                    /\ CreateSnapshotAndClearAOF("ok")
                          => /\ k \in DOMAIN snapshot'[1]
                             /\ snapshot'[1][k].expires_at = ZeroTime
      ]_vars

\* Cleanup has run on a key with a ttl and a key without: the first is gone
\* with no DEL in the AOF, the second is there.
C31Witness ==
    /\ last.op = "Cleanup"
    /\ aofLines = <<<<SetCommand("a", "v", 1)>>, <<SetCommand("b", "v", 0)>>>>
    /\ DOMAIN data = {"b"} /\ expires["b"] = ZeroTime

\* C32: once Cache.Close has returned (the AOF writer is closed and the
\* process is up), no background task acts on the Index, the snapshot file
\* or the AOF: the cleaner runs no Cleanup, the snapshot loop runs neither
\* SaveSnapshot nor ClearAOF.
C32NoTaskAfterClose ==
    [][(phase = "up" /\ ~writerOK)
          => ~(CleanupLocked("cleaner") \/ SaveSnapshot("snap") \/ ClearAOF("snap"))
      ]_vars

\* C33: after SnapshotManager.Stop has returned (stopChan is closed) the
\* loop starts no CreateSnapshotAndClearAOF: a tick that is ready together
\* with the closed stopChan is not taken.
C33NoSnapshotAfterStop ==
    [][sm.closed => ~LoopTick("snap")]_vars

\* C34: a SnapshotManager has at most one loop that issues
\* CreateSnapshotAndClearAOF: in no state are two of its loop goroutines
\* inside that call.
C34OneLoop ==
    Cardinality({l \in Loops : pc[l] # "idle"}) <= 1

\* C35: whatever the sequence of Start and Stop calls, stopChan is closed at
\* most once: no call of Stop ends the process with the panic of a second
\* close.
C35StopChannelClosedOnce ==
    crashIdx.kind # "panic"

\* ---- clock reads, ClearAOF errors, ttl
\* The keys of the Index not expired at clock t.
liveAt(t) == {k \in DOMAIN data : ~isExpired(Idx, k, t)}

\* C36: the sweep, the count and the victim selection of one Set agree on the
\* expired keys: when a Set evicts a key there is an instant of the call at
\* which the non-expired entries number at least maxKeys and the victim is the
\* least recently used of them.
C36SetClocksAgree ==
    [][(SetStep /\ last'.victim # NoKeys)
          => \E t \in now..now' :
                /\ Cardinality(liveAt(t)) >= maxKeys
                /\ \A k \in last'.victim :
                      /\ k \in liveAt(t)
                      /\ \A o \in liveAt(t) : lastAccess[k] <= lastAccess[o]
      ]_vars

\* C37: a ClearAOF that returns an error, before or after the truncation,
\* on a writer that accepted records until then, leaves a writer that accepts
\* the record of the next Set or Del.
C37ClearErrorKeepsWriter ==
    [][\A outcome \in {"clearErrBefore", "clearErrAfter"} :
          (writerOK /\ CreateSnapshotAndClearAOF(outcome)) => writerOK'
      ]_vars

\* C38: the ttl of a SET record is positive exactly when the ttl of the Set
\* is, whole seconds or not, and after a restart an entry has an expiry
\* exactly when it had one before the crash.
C38TtlKeepsExpiry ==
    [][/\ (last'.op = "Set" /\ aofLines' # aofLines)
             => (aofLines'[Len(aofLines')][1].ttl > 0 <=> last'.ttl > 0)
       /\ (phase = "down" /\ phase' = "up")
             => \A k \in DOMAIN data' :
                   expires'[k] # ZeroTime <=> crashIdx.expires[k] # ZeroTime
      ]_vars

\* C39: the value map, the expiry map and the last-access map have the same
\* keys in every state in which the Index lock is free, whatever operations
\* ran before: no key is left in one map without the others.
C39SameKeys ==
    /\ DOMAIN data = DOMAIN expires
    /\ DOMAIN data = DOMAIN lastAccess

\* Cleanup has removed key a, which a snapshot taken earlier still holds
\* beside key b: only b is left, in each of the three maps.
C39Witness ==
    /\ phase = "up" /\ last.op = "Cleanup"
    /\ decodes(snapshot) /\ DOMAIN snapshot[1] = {"a", "b"}
    /\ DOMAIN data = {"b"} /\ DOMAIN expires = {"b"} /\ DOMAIN lastAccess = {"b"}

====
